---- MODULE Spec2Model ----
(***************************************************************************)
(* Traversal cursors of generic-cursors: a stack of access tokens over a   *)
(* graph of nodes, for the unchecked backend (simple.rs), the single-owner *)
(* backend (refcell.rs) and the concurrent backend (mutex.rs).             *)
(***************************************************************************)
EXTENDS Integers, Sequences, FiniteSets, TLC

\* ---------------------------------------------------------------- bounds
NumNodes == 3        \* nodes of the traversed structure, a ring 1 -> 2 -> .. -> 1
NumCursors == 2      \* cursors alive at the same time over the shared nodes
MaxDepth == 4        \* cap on the frames of an unchecked cursor
MaxPoisoned == 1     \* nodes 1..k are poisoned mutexes at the start, k up to this
NumAux == 2          \* values of the auxiliary type U of the data-augmented cursor
MaxForestNodes == 4  \* nodes of the forests that preorder_traverse is run on

Nodes == 1..NumNodes
Cursors == 1..NumCursors
NoNode == 0

Backends == {"simple", "refcell", "mutex"}
Checked == {"refcell", "mutex"}

VARIABLES
    backend,    \* the backend every cursor of this run is built on
    data,       \* data[c]: the Vec of frames of cursor c, frame 1 = root (Vec index 0)
    pc,         \* pc[c]: "none" (no such cursor), "live", "poison_err" (inside a PoisonError)
    root,       \* root[c]: the node cursor c was created with
    held,       \* held[n]: the RefCell of n is mutably borrowed / the Mutex of n is locked
    poisoned,   \* poisoned[n]: the Mutex of n is poisoned
    tokens,     \* nodes whose RefMut / MutexGuard was returned by into_top and is still alive
    leaked,     \* nodes whose RefMut / MutexGuard was forgotten by into_top (never dropped)
    result,     \* what the call of the last step returned
    released,   \* the frames the last step popped, in the order popped
    mark,       \* history: the observation of one cursor's descend / ascend calls
    forest,     \* the Forest that preorder_traverse walks: forest[i] is the parent of node i
    visited     \* the calls of the callback of preorder_traverse so far: <<node, depth>>

vars == <<backend, data, pc, root, held, poisoned, tokens, leaked, result, released, mark,
          forest, visited>>

\* ------------------------------------------------------- the node graph
\* The examples' ring: cyclic.rs:37-39 links a -> b -> c -> a.
next(n) == (n % NumNodes) + 1
prev(n) == ((n + NumNodes - 2) % NumNodes) + 1

\* Navigation closures handed to descend_with / inject_with: node -> optional node.
NavFns == {"next", "prev", "self", "none"}
Navigate(f, n) ==
    CASE f = "next" -> next(n)
      [] f = "prev" -> prev(n)
      [] f = "self" -> n
      [] f = "none" -> NoNode

\* ------------------------------------------------------------- Vec<..>
Top(s) == s[Len(s)]
PushFront(s, n) == <<n>> \o s
\* Vec::push
Push(s, n) == Append(s, n)
PopFront(s) == [rest |-> Tail(s), node |-> Head(s), idx |-> 1, len |-> Len(s)]
\* Vec::pop: removes the last element; the record says which frame left the stack.
Pop(s) == [rest |-> SubSeq(s, 1, Len(s) - 1), node |-> s[Len(s)], idx |-> Len(s), len |-> Len(s)]

RECURSIVE PopLoop(_, _, _)
\* `for _ in ..k { self.data.pop(); }`: k pops, with the log of what was popped.
PopLoop(s, k, log) ==
    IF k = 0 \/ Len(s) = 0 THEN [rest |-> s, log |-> log]
    ELSE LET p == Pop(s) IN
         PopLoop(p.rest, k - 1, Append(log, [node |-> p.node, idx |-> p.idx, len |-> p.len]))

LogNodes(log) == {log[i].node : i \in 1..Len(log)}
Range(s) == {s[i] : i \in 1..Len(s)}

Release_keeps_root(h, log) == [n \in Nodes |-> h[n] /\ (n \notin LogNodes(log) \/ n = 1)]
\* Dropping the RefMuts / MutexGuards of a log of popped frames frees their nodes.
Release(h, log) == [n \in Nodes |-> h[n] /\ n \notin LogNodes(log)]

is_at_root(c) == Len(data[c]) = 1

\* Cursors are interchangeable: a new cursor takes the lowest free identifier.
FreeSlot(c) == pc[c] = "none" /\ \A k \in Cursors : k < c => pc[k] # "none"

\* The decisions a move_with closure can return.
MoveDecision ==
    [kind : {"Ascend", "Stay"}, node : {NoNode}] \cup [kind : {"Descend", "Inject"}, node : Nodes]

\* No observation is running.
NoMark == [c |-> 0, len |-> 0, top |-> NoNode, bal |-> 0]

\* The observation after a descend_with or ascend call of cursor c returned res:
\* bal is the number of successful descends minus the number of successful ascends
\* since the observation began; it ends once the ascends exceed the descends.
Tally(c, res) ==
    IF mark.c # c THEN mark
    ELSE CASE res = "Ok" -> [mark EXCEPT !.bal = @ + 1]
           [] res = "Popped" -> IF mark.bal = 0 THEN NoMark ELSE [mark EXCEPT !.bal = @ - 1]
           [] OTHER -> mark

\* No forest is being traversed.
NoForest == <<>>

ok_or_swallowed(res) == "Ok"
\* `self.ascend().ok_or(MoveError::AscendAtRoot)`: the None of ascend becomes the error.
ok_or_AscendAtRoot(res) == IF res = "AtRoot" THEN "AscendAtRoot" ELSE "Ok"

Init ==
    /\ backend \in Backends
    /\ data = [c \in Cursors |-> <<>>]
    /\ pc = [c \in Cursors |-> "none"]
    /\ root = [c \in Cursors |-> NoNode]
    /\ held = [n \in Nodes |-> FALSE]
    /\ \E k \in 0..MaxPoisoned :
          poisoned = [n \in Nodes |-> backend = "mutex" /\ n <= k]
    /\ tokens = {}
    /\ leaked = {}
    /\ result = "init"
    /\ released = <<>>
    /\ mark = NoMark
    /\ forest = NoForest
    /\ visited = <<>>

\* ============================================================ refcell.rs
try_borrow_mut_always(n) == "Ok"
\* RefCell::try_borrow_mut: fails while any borrow of the cell is alive.
try_borrow_mut(n) == IF held[n] THEN "BorrowMutError" ELSE "Ok"

RefCell_new(c, r) ==
    /\ backend = "refcell" /\ FreeSlot(c)
    /\ LET borrow == try_borrow_mut(r) IN
       IF borrow = "Ok"
       THEN /\ data' = [data EXCEPT ![c] = <<r>>]
            /\ held' = [held EXCEPT ![r] = TRUE]
            /\ pc' = [pc EXCEPT ![c] = "live"]
            /\ root' = [root EXCEPT ![c] = r]
            /\ result' = "Ok"
       ELSE /\ result' = borrow
            /\ UNCHANGED <<data, held, pc, root>>
    /\ released' = <<>>
    /\ UNCHANGED <<backend, forest, visited, mark, poisoned, tokens, leaked>>

RefCell_inject_top(c, new_top) ==
    /\ backend = "refcell" /\ pc[c] = "live"
    /\ LET borrow == try_borrow_mut(new_top) IN
       IF borrow = "Ok"
       THEN /\ data' = [data EXCEPT ![c] = Push(@, new_top)]
            /\ held' = [held EXCEPT ![new_top] = TRUE]
            /\ result' = "Ok"
       ELSE /\ result' = borrow
            /\ UNCHANGED <<data, held>>
    /\ released' = <<>>
    /\ UNCHANGED <<backend, forest, visited, mark, pc, root, poisoned, tokens, leaked>>

RefCell_inject_with_none_is_error(c, f) ==
    /\ backend = "refcell" /\ pc[c] = "live"
    /\ LET new_top == Navigate(f, Top(data[c]))
           borrow == IF new_top = NoNode THEN "BorrowMutError" ELSE try_borrow_mut(new_top)
       IN IF borrow = "Ok"
          THEN /\ data' = [data EXCEPT ![c] = Push(@, new_top)]
               /\ held' = [held EXCEPT ![new_top] = TRUE]
               /\ result' = "Ok"
          ELSE /\ result' = borrow
               /\ UNCHANGED <<data, held>>
    /\ released' = <<>>
    /\ UNCHANGED <<backend, forest, visited, mark, pc, root, poisoned, tokens, leaked>>

RefCell_inject_with(c, f) ==
    /\ backend = "refcell" /\ pc[c] = "live"
    /\ LET new_top == Navigate(f, Top(data[c])) IN
       IF new_top = NoNode
       THEN /\ result' = "NoEdge"
            /\ UNCHANGED <<data, held>>
       ELSE LET borrow == try_borrow_mut(new_top) IN
            IF borrow = "Ok"
            THEN /\ data' = [data EXCEPT ![c] = Push(@, new_top)]
                 /\ held' = [held EXCEPT ![new_top] = TRUE]
                 /\ result' = "Ok"
            ELSE /\ result' = borrow
                 /\ UNCHANGED <<data, held>>
    /\ released' = <<>>
    /\ UNCHANGED <<backend, forest, visited, mark, pc, root, poisoned, tokens, leaked>>

RefCell_descend_with(c, f) ==
    /\ backend = "refcell" /\ pc[c] = "live"
    /\ LET new_top == Navigate(f, Top(data[c])) IN
       IF new_top = NoNode
       THEN /\ result' = "NoEdge"
            /\ UNCHANGED <<data, held>>
       ELSE LET borrow == try_borrow_mut(new_top) IN
            IF borrow = "Ok"
            THEN /\ data' = [data EXCEPT ![c] = Push(@, new_top)]
                 /\ held' = [held EXCEPT ![new_top] = TRUE]
                 /\ result' = "Ok"
            ELSE /\ result' = borrow
                 /\ UNCHANGED <<data, held>>
    /\ released' = <<>>
    /\ mark' = Tally(c, result')
    /\ UNCHANGED <<backend, forest, visited, pc, root, poisoned, tokens, leaked>>

\* The match of ascend on self.data.len(): the stack it leaves, what it popped, its result.
RefCell_ascend_on(s) ==
    CASE Len(s) = 0 -> [data |-> s, log |-> <<>>, res |-> "unreachable"]
      [] Len(s) = 1 -> [data |-> s, log |-> <<>>, res |-> "AtRoot"]
      [] OTHER -> LET p == Pop(s) IN
                  [data |-> p.rest,
                   log |-> <<[node |-> p.node, idx |-> p.idx, len |-> p.len]>>,
                   res |-> "Popped"]

RefCell_ascend(c) ==
    /\ backend = "refcell" /\ pc[c] = "live"
    /\ LET a == RefCell_ascend_on(data[c]) IN
       /\ data' = [data EXCEPT ![c] = a.data]
       /\ held' = Release(held, a.log)
       /\ released' = a.log
       /\ result' = a.res
    /\ mark' = Tally(c, result')
    /\ UNCHANGED <<backend, forest, visited, pc, root, poisoned, tokens, leaked>>

RECURSIVE RefCell_ascend_while_on(_, _, _)
\* The loop of ascend_while; the predicate is true exactly of the nodes in P.
RefCell_ascend_while_on(s, P, log) ==
    IF Len(s) # 1 /\ Top(s) \in P
    THEN LET a == RefCell_ascend_on(s) IN RefCell_ascend_while_on(a.data, P, log \o a.log)
    ELSE [data |-> s, log |-> log]

RefCell_ascend_while(c, P) ==
    /\ backend = "refcell" /\ pc[c] = "live"
    /\ LET w == RefCell_ascend_while_on(data[c], P, <<>>) IN
       /\ data' = [data EXCEPT ![c] = w.data]
       /\ held' = Release(held, w.log)
       /\ released' = w.log
       /\ result' = "Ok"
    /\ UNCHANGED <<backend, forest, visited, mark, pc, root, poisoned, tokens, leaked>>

RefCell_move_with(c, d) ==
    /\ backend = "refcell" /\ pc[c] = "live"
    /\ CASE d.kind = "Ascend" ->
              LET a == RefCell_ascend_on(data[c]) IN
              /\ data' = [data EXCEPT ![c] = a.data]
              /\ held' = Release(held, a.log)
              /\ released' = a.log
              /\ result' = ok_or_AscendAtRoot(a.res)
         [] d.kind = "Stay" ->
              /\ result' = "Ok"
              /\ released' = <<>>
              /\ UNCHANGED <<data, held>>
         [] d.kind \in {"Inject", "Descend"} ->
              LET borrow == try_borrow_mut(d.node) IN
              /\ IF borrow = "Ok"
                 THEN /\ data' = [data EXCEPT ![c] = Push(@, d.node)]
                      /\ held' = [held EXCEPT ![d.node] = TRUE]
                      /\ result' = "Ok"
                 ELSE /\ result' = borrow
                      /\ UNCHANGED <<data, held>>
              /\ released' = <<>>
    /\ UNCHANGED <<backend, forest, visited, mark, pc, root, poisoned, tokens, leaked>>

set_len_keep(s) == [rest |-> s, forgotten |-> {}]
\* `self.data.set_len(0)`: the Vec forgets its elements without dropping them.
set_len_0(s) == [rest |-> <<>>, forgotten |-> Range(s)]

RefCell_drop_from_1(s) == PopLoop(s, Len(s) - 1, <<>>)
\* Drop::drop of the stack: `for _ in 0..self.data.len() { self.data.pop(); }`.
RefCell_drop_on(s) == PopLoop(s, Len(s), <<>>)

RefCell_into_top(c) ==
    /\ backend = "refcell" /\ pc[c] = "live"
    /\ LET ret == Pop(data[c])
           cut == set_len_0(ret.rest)
           dropped == RefCell_drop_on(cut.rest)
       IN /\ tokens' = tokens \cup {ret.node}
          /\ leaked' = leaked \cup cut.forgotten
          /\ held' = Release(held, dropped.log)
          /\ released' = dropped.log
          /\ data' = [data EXCEPT ![c] = dropped.rest]
          /\ result' = "Ok"
    /\ pc' = [pc EXCEPT ![c] = "none"]
    /\ root' = [root EXCEPT ![c] = NoNode]
    /\ UNCHANGED <<backend, forest, visited, mark, poisoned>>

\* The RefMut that into_top returned goes out of scope.
RefCell_drop_top(n) ==
    /\ backend = "refcell" /\ n \in tokens
    /\ tokens' = tokens \ {n}
    /\ held' = [held EXCEPT ![n] = FALSE]
    /\ released' = <<>>
    /\ result' = "Ok"
    /\ UNCHANGED <<backend, forest, visited, mark, data, pc, root, poisoned, leaked>>

RefCell_to_root_from_0(s) == PopLoop(s, Len(s), <<>>)
\* `for _ in 1..self.data.len() { self.data.pop(); }`
RefCell_to_root_on(s) == PopLoop(s, Len(s) - 1, <<>>)

RefCell_to_root(c) ==
    /\ backend = "refcell" /\ pc[c] = "live"
    /\ LET r == RefCell_to_root_on(data[c]) IN
       /\ data' = [data EXCEPT ![c] = r.rest]
       /\ held' = Release(held, r.log)
       /\ released' = r.log
    /\ result' = "Ok"
    /\ UNCHANGED <<backend, forest, visited, mark, pc, root, poisoned, tokens, leaked>>

RefCell_drop(c) ==
    /\ backend = "refcell" /\ pc[c] = "live"
    /\ LET r == RefCell_drop_on(data[c]) IN
       /\ data' = [data EXCEPT ![c] = r.rest]
       /\ held' = Release(held, r.log)
       /\ released' = r.log
    /\ pc' = [pc EXCEPT ![c] = "none"]
    /\ root' = [root EXCEPT ![c] = NoNode]
    /\ result' = "Ok"
    /\ UNCHANGED <<backend, forest, visited, mark, poisoned, tokens, leaked>>

RefCell_Next ==
    \/ \E c \in Cursors, n \in Nodes : RefCell_new(c, n) \/ RefCell_inject_top(c, n)
    \/ \E c \in Cursors, f \in NavFns : RefCell_inject_with(c, f) \/ RefCell_descend_with(c, f)
    \/ \E c \in Cursors : RefCell_ascend(c) \/ RefCell_to_root(c) \/ RefCell_into_top(c) \/ RefCell_drop(c)
    \/ \E c \in Cursors : \E P \in SUBSET Range(data[c]) : RefCell_ascend_while(c, P)
    \/ \E c \in Cursors, d \in MoveDecision : RefCell_move_with(c, d)
    \/ \E n \in Nodes : RefCell_drop_top(n)

\* ============================================================== mutex.rs
try_lock_forgets_poison(n) == IF held[n] THEN "WouldBlock" ELSE "Ok"
lock_blocking(n) == IF held[n] THEN "Blocked" ELSE IF poisoned[n] THEN "Poisoned" ELSE "Ok"
\* Mutex::try_lock: WouldBlock while the mutex is locked; otherwise the lock is taken,
\* and the guard comes inside a PoisonError when the mutex is poisoned.
try_lock(n) == IF held[n] THEN "WouldBlock" ELSE IF poisoned[n] THEN "Poisoned" ELSE "Ok"

TryLockResult == {"Ok", "Poisoned", "WouldBlock"}

\* The mutex state once try_lock returned `guard`: locked unless WouldBlock.
Locked(n, guard) == IF guard \in {"Ok", "Poisoned"} THEN [held EXCEPT ![n] = TRUE] ELSE held

Mutex_handle_trylock_result_keeps_guard(s, n, guard, ignore_poison) ==
    CASE guard = "Ok" ->
           [data |-> Push(s, n), held |-> Locked(n, guard), res |-> "Ok"]
      [] guard = "Poisoned" /\ ignore_poison ->
           [data |-> Push(s, n), held |-> Locked(n, guard), res |-> "Ok"]
      [] guard = "Poisoned" /\ ~ignore_poison ->
           [data |-> s, held |-> Locked(n, guard), res |-> "Poisoned"]
      [] guard = "WouldBlock" ->
           [data |-> s, held |-> Locked(n, guard), res |-> "WouldBlock"]

Mutex_handle_trylock_result_arms(s, n, guard, ignore_poison) ==
    CASE guard = "Ok" ->
           [data |-> Push(s, n), held |-> Locked(n, guard), res |-> "Ok"]
      [] guard = "Poisoned" /\ ignore_poison ->
           [data |-> Push(s, n), held |-> Locked(n, guard), res |-> "Ok"]
      [] guard = "WouldBlock" \/ (guard = "Poisoned" /\ ~ignore_poison) ->
           [data |-> s, held |-> [Locked(n, guard) EXCEPT ![n] = guard = "WouldBlock"],
            res |-> "Poisoned"]

\* The stack, the locks and the result after the match of handle_trylock_result.
Mutex_handle_trylock_result(s, n, guard, ignore_poison) ==
    CASE guard = "Ok" ->
           [data |-> Push(s, n), held |-> Locked(n, guard), res |-> "Ok"]
      [] guard = "Poisoned" /\ ignore_poison ->
           [data |-> Push(s, n), held |-> Locked(n, guard), res |-> "Ok"]
      [] guard = "Poisoned" /\ ~ignore_poison ->
           \* _guard is dropped at the end of the arm: the mutex is unlocked again
           [data |-> s, held |-> [Locked(n, guard) EXCEPT ![n] = FALSE], res |-> "Poisoned"]
      [] guard = "WouldBlock" ->
           [data |-> s, held |-> Locked(n, guard), res |-> "WouldBlock"]

Mutex_handle_move_trylock_result_push(s, n, guard, ignore_poison) ==
    CASE guard = "Ok" ->
           [data |-> Push(s, n), held |-> Locked(n, guard), res |-> "Ok"]
      [] guard = "Poisoned" ->
           [data |-> Push(s, n), held |-> Locked(n, guard),
            res |-> IF ignore_poison THEN "Ok" ELSE "Poisoned"]
      [] guard = "WouldBlock" ->
           [data |-> s, held |-> Locked(n, guard), res |-> "WouldBlock"]

\* The same match with MoveError results.
Mutex_handle_move_trylock_result(s, n, guard, ignore_poison) ==
    CASE guard = "Ok" ->
           [data |-> Push(s, n), held |-> Locked(n, guard), res |-> "Ok"]
      [] guard = "Poisoned" /\ ignore_poison ->
           [data |-> Push(s, n), held |-> Locked(n, guard), res |-> "Ok"]
      [] guard = "Poisoned" /\ ~ignore_poison ->
           [data |-> s, held |-> [Locked(n, guard) EXCEPT ![n] = FALSE], res |-> "Poisoned"]
      [] guard = "WouldBlock" ->
           [data |-> s, held |-> Locked(n, guard), res |-> "WouldBlock"]

Mutex_new_poisoned_holds_nothing(c, r) ==
    /\ backend = "mutex" /\ FreeSlot(c)
    /\ LET guard == try_lock(r) IN
       /\ guard \in TryLockResult
       /\ CASE guard = "Ok" ->
                 /\ data' = [data EXCEPT ![c] = <<r>>]
                 /\ pc' = [pc EXCEPT ![c] = "live"]
                 /\ root' = [root EXCEPT ![c] = r]
                 /\ held' = Locked(r, guard)
            [] guard \in {"Poisoned", "WouldBlock"} ->
                 UNCHANGED <<data, pc, root, held>>
       /\ result' = guard
    /\ released' = <<>>
    /\ UNCHANGED <<backend, forest, visited, mark, poisoned, tokens, leaked>>

Mutex_new(c, r) ==
    /\ backend = "mutex" /\ FreeSlot(c)
    /\ LET guard == try_lock(r) IN
       /\ guard \in TryLockResult    \* try_lock has returned
       /\ CASE guard = "Ok" ->
                 /\ data' = [data EXCEPT ![c] = <<r>>]
                 /\ pc' = [pc EXCEPT ![c] = "live"]
                 /\ root' = [root EXCEPT ![c] = r]
            [] guard = "Poisoned" ->
                 \* Err(Poisoned(PoisonError::new(Self { data: vec![guard.into_inner()] })))
                 /\ data' = [data EXCEPT ![c] = <<r>>]
                 /\ pc' = [pc EXCEPT ![c] = "poison_err"]
                 /\ root' = [root EXCEPT ![c] = r]
            [] guard = "WouldBlock" ->
                 UNCHANGED <<data, pc, root>>
       /\ held' = Locked(r, guard)
       /\ result' = guard
    /\ released' = <<>>
    /\ UNCHANGED <<backend, forest, visited, mark, poisoned, tokens, leaked>>

\* The caller takes the cursor out of the PoisonError that new returned.
Mutex_into_inner(c) ==
    /\ backend = "mutex" /\ pc[c] = "poison_err"
    /\ pc' = [pc EXCEPT ![c] = "live"]
    /\ result' = "Ok"
    /\ released' = <<>>
    /\ UNCHANGED <<backend, forest, visited, mark, data, root, held, poisoned, tokens, leaked>>

Mutex_inject_top(c, new_top, ignore_poison) ==
    /\ backend = "mutex" /\ pc[c] = "live"
    /\ LET guard == try_lock(new_top)
           h == Mutex_handle_trylock_result(data[c], new_top, guard, ignore_poison)
       IN /\ guard \in TryLockResult
          /\ data' = [data EXCEPT ![c] = h.data]
          /\ held' = h.held
          /\ result' = h.res
    /\ released' = <<>>
    /\ UNCHANGED <<backend, forest, visited, mark, pc, root, poisoned, tokens, leaked>>

Mutex_inject_with_ignoring_poison(c, f, ignore_poison) ==
    /\ backend = "mutex" /\ pc[c] = "live"
    /\ LET new_top == Navigate(f, Top(data[c])) IN
       IF new_top = NoNode
       THEN /\ result' = "NoEdge"
            /\ UNCHANGED <<data, held>>
       ELSE LET guard == try_lock(new_top)
                h == Mutex_handle_trylock_result(data[c], new_top, guard, TRUE)
            IN /\ guard \in TryLockResult
               /\ data' = [data EXCEPT ![c] = h.data]
               /\ held' = h.held
               /\ result' = h.res
    /\ released' = <<>>
    /\ UNCHANGED <<backend, forest, visited, mark, pc, root, poisoned, tokens, leaked>>

Mutex_inject_with(c, f, ignore_poison) ==
    /\ backend = "mutex" /\ pc[c] = "live"
    /\ LET new_top == Navigate(f, Top(data[c])) IN
       IF new_top = NoNode
       THEN /\ result' = "NoEdge"
            /\ UNCHANGED <<data, held>>
       ELSE LET guard == try_lock(new_top)
                h == Mutex_handle_trylock_result(data[c], new_top, guard, ignore_poison)
            IN /\ guard \in TryLockResult
               /\ data' = [data EXCEPT ![c] = h.data]
               /\ held' = h.held
               /\ result' = h.res
    /\ released' = <<>>
    /\ UNCHANGED <<backend, forest, visited, mark, pc, root, poisoned, tokens, leaked>>

Mutex_descend_with(c, f, ignore_poison) ==
    /\ backend = "mutex" /\ pc[c] = "live"
    /\ LET new_top == Navigate(f, Top(data[c])) IN
       IF new_top = NoNode
       THEN /\ result' = "NoEdge"
            /\ UNCHANGED <<data, held>>
       ELSE LET guard == try_lock(new_top)
                h == Mutex_handle_trylock_result(data[c], new_top, guard, ignore_poison)
            IN /\ guard \in TryLockResult
               /\ data' = [data EXCEPT ![c] = h.data]
               /\ held' = h.held
               /\ result' = h.res
    /\ released' = <<>>
    /\ mark' = Tally(c, result')
    /\ UNCHANGED <<backend, forest, visited, pc, root, poisoned, tokens, leaked>>

\* The match of ascend on self.data.len().
Mutex_ascend_on(s) ==
    CASE Len(s) = 0 -> [data |-> s, log |-> <<>>, res |-> "unreachable"]
      [] Len(s) = 1 -> [data |-> s, log |-> <<>>, res |-> "AtRoot"]
      [] OTHER -> LET p == Pop(s) IN
                  [data |-> p.rest,
                   log |-> <<[node |-> p.node, idx |-> p.idx, len |-> p.len]>>,
                   res |-> "Popped"]

Mutex_ascend(c) ==
    /\ backend = "mutex" /\ pc[c] = "live"
    /\ LET a == Mutex_ascend_on(data[c]) IN
       /\ data' = [data EXCEPT ![c] = a.data]
       /\ held' = Release(held, a.log)
       /\ released' = a.log
       /\ result' = a.res
    /\ mark' = Tally(c, result')
    /\ UNCHANGED <<backend, forest, visited, pc, root, poisoned, tokens, leaked>>

RECURSIVE Mutex_ascend_while_on(_, _, _)
\* The loop of ascend_while; the predicate is true exactly of the nodes in P.
Mutex_ascend_while_on(s, P, log) ==
    IF Len(s) # 1 /\ Top(s) \in P
    THEN LET a == Mutex_ascend_on(s) IN Mutex_ascend_while_on(a.data, P, log \o a.log)
    ELSE [data |-> s, log |-> log]

Mutex_ascend_while(c, P) ==
    /\ backend = "mutex" /\ pc[c] = "live"
    /\ LET w == Mutex_ascend_while_on(data[c], P, <<>>) IN
       /\ data' = [data EXCEPT ![c] = w.data]
       /\ held' = Release(held, w.log)
       /\ released' = w.log
       /\ result' = "Ok"
    /\ UNCHANGED <<backend, forest, visited, mark, pc, root, poisoned, tokens, leaked>>

Mutex_move_with(c, d, ignore_poison) ==
    /\ backend = "mutex" /\ pc[c] = "live"
    /\ CASE d.kind = "Ascend" ->
              LET a == Mutex_ascend_on(data[c]) IN
              /\ data' = [data EXCEPT ![c] = a.data]
              /\ held' = Release(held, a.log)
              /\ released' = a.log
              /\ result' = ok_or_AscendAtRoot(a.res)
         [] d.kind = "Stay" ->
              /\ result' = "Ok"
              /\ released' = <<>>
              /\ UNCHANGED <<data, held>>
         [] d.kind \in {"Inject", "Descend"} ->
              LET guard == try_lock(d.node)
                  h == Mutex_handle_move_trylock_result(data[c], d.node, guard, ignore_poison)
              IN /\ guard \in TryLockResult
                 /\ data' = [data EXCEPT ![c] = h.data]
                 /\ held' = h.held
                 /\ result' = h.res
                 /\ released' = <<>>
    /\ UNCHANGED <<backend, forest, visited, mark, pc, root, poisoned, tokens, leaked>>

Mutex_drop_on(s) == PopLoop(s, Len(s), <<>>)

Mutex_into_top(c) ==
    /\ backend = "mutex" /\ pc[c] = "live"
    /\ LET ret == Pop(data[c])
           cut == set_len_0(ret.rest)
           dropped == Mutex_drop_on(cut.rest)
       IN /\ tokens' = tokens \cup {ret.node}
          /\ leaked' = leaked \cup cut.forgotten
          /\ held' = Release(held, dropped.log)
          /\ released' = dropped.log
          /\ data' = [data EXCEPT ![c] = dropped.rest]
          /\ result' = "Ok"
    /\ pc' = [pc EXCEPT ![c] = "none"]
    /\ root' = [root EXCEPT ![c] = NoNode]
    /\ UNCHANGED <<backend, forest, visited, mark, poisoned>>

\* The MutexGuard that into_top returned goes out of scope.
Mutex_drop_top(n) ==
    /\ backend = "mutex" /\ n \in tokens
    /\ tokens' = tokens \ {n}
    /\ held' = [held EXCEPT ![n] = FALSE]
    /\ released' = <<>>
    /\ result' = "Ok"
    /\ UNCHANGED <<backend, forest, visited, mark, data, pc, root, poisoned, leaked>>

Mutex_to_root_from_2(s) == PopLoop(s, IF Len(s) > 2 THEN Len(s) - 2 ELSE 0, <<>>)
\* `for _ in 1..self.data.len() { self.data.pop(); }`
Mutex_to_root_on(s) == PopLoop(s, Len(s) - 1, <<>>)

Mutex_to_root(c) ==
    /\ backend = "mutex" /\ pc[c] = "live"
    /\ LET r == Mutex_to_root_on(data[c]) IN
       /\ data' = [data EXCEPT ![c] = r.rest]
       /\ held' = Release(held, r.log)
       /\ released' = r.log
    /\ result' = "Ok"
    /\ UNCHANGED <<backend, forest, visited, mark, pc, root, poisoned, tokens, leaked>>

\* Drop of the cursor, or of the PoisonError that holds it.
Mutex_drop(c) ==
    /\ backend = "mutex" /\ pc[c] \in {"live", "poison_err"}
    /\ LET r == Mutex_drop_on(data[c]) IN
       /\ data' = [data EXCEPT ![c] = r.rest]
       /\ held' = Release(held, r.log)
       /\ released' = r.log
    /\ pc' = [pc EXCEPT ![c] = "none"]
    /\ root' = [root EXCEPT ![c] = NoNode]
    /\ result' = "Ok"
    /\ UNCHANGED <<backend, forest, visited, mark, poisoned, tokens, leaked>>

Mutex_Next ==
    \/ \E c \in Cursors, n \in Nodes : Mutex_new(c, n)
    \/ \E c \in Cursors, n \in Nodes, ip \in BOOLEAN : Mutex_inject_top(c, n, ip)
    \/ \E c \in Cursors, f \in NavFns, ip \in BOOLEAN :
          Mutex_inject_with(c, f, ip) \/ Mutex_descend_with(c, f, ip)
    \/ \E c \in Cursors :
          \/ Mutex_ascend(c) \/ Mutex_to_root(c) \/ Mutex_into_top(c)
          \/ Mutex_drop(c) \/ Mutex_into_inner(c)
    \/ \E c \in Cursors : \E P \in SUBSET Range(data[c]) : Mutex_ascend_while(c, P)
    \/ \E c \in Cursors, d \in MoveDecision, ip \in BOOLEAN : Mutex_move_with(c, d, ip)
    \/ \E n \in Nodes : Mutex_drop_top(n)

\* ============================================================= simple.rs
\* Vec::truncate(k) and the drop of a Vec leave the elements front to back.
Truncate(s, k) ==
    [rest |-> SubSeq(s, 1, k),
     log |-> [i \in 1..(Len(s) - k) |-> [node |-> s[k + i], idx |-> k + i, len |-> Len(s)]]]

\* A MutRefStack borrows its root exclusively for 'root: one cursor per structure.
Simple_new(c, r) ==
    /\ backend = "simple" /\ c = 1 /\ pc[c] = "none"
    /\ data' = [data EXCEPT ![c] = <<r>>]
    /\ pc' = [pc EXCEPT ![c] = "live"]
    /\ root' = [root EXCEPT ![c] = r]
    /\ result' = "Ok"
    /\ released' = <<>>
    /\ UNCHANGED <<backend, forest, visited, mark, held, poisoned, tokens, leaked>>

Simple_inject_top(c, new_top) ==
    /\ backend = "simple" /\ pc[c] = "live" /\ Len(data[c]) < MaxDepth
    /\ data' = [data EXCEPT ![c] = Push(@, new_top)]
    /\ result' = "Ok"
    /\ released' = <<>>
    /\ UNCHANGED <<backend, forest, visited, mark, pc, root, held, poisoned, tokens, leaked>>

Simple_inject_with(c, f) ==
    /\ backend = "simple" /\ pc[c] = "live" /\ Len(data[c]) < MaxDepth
    /\ LET new_top == Navigate(f, Top(data[c])) IN
       IF new_top = NoNode
       THEN /\ result' = "NoEdge"
            /\ UNCHANGED data
       ELSE /\ data' = [data EXCEPT ![c] = Push(@, new_top)]
            /\ result' = "Ok"
    /\ released' = <<>>
    /\ UNCHANGED <<backend, forest, visited, mark, pc, root, held, poisoned, tokens, leaked>>

Simple_descend_with_checked(c, f) ==
    /\ backend = "simple" /\ pc[c] = "live" /\ Len(data[c]) < MaxDepth
    /\ LET new_top == Navigate(f, Top(data[c])) IN
       IF new_top = NoNode
       THEN /\ result' = "NoEdge"
            /\ UNCHANGED data
       ELSE IF new_top \in Range(data[c])
            THEN /\ result' = "BorrowMutError"
                 /\ UNCHANGED data
            ELSE /\ data' = [data EXCEPT ![c] = Push(@, new_top)]
                 /\ result' = "Ok"
    /\ released' = <<>>
    /\ mark' = Tally(c, result')
    /\ UNCHANGED <<backend, forest, visited, pc, root, held, poisoned, tokens, leaked>>

Simple_descend_with(c, f) ==
    /\ backend = "simple" /\ pc[c] = "live" /\ Len(data[c]) < MaxDepth
    /\ LET new_top == Navigate(f, Top(data[c])) IN
       IF new_top = NoNode
       THEN /\ result' = "NoEdge"
            /\ UNCHANGED data
       ELSE /\ data' = [data EXCEPT ![c] = Push(@, new_top)]
            /\ result' = "Ok"
    /\ released' = <<>>
    /\ mark' = Tally(c, result')
    /\ UNCHANGED <<backend, forest, visited, pc, root, held, poisoned, tokens, leaked>>

Simple_ascend_on_unguarded(s) ==
    CASE Len(s) = 0 -> [data |-> s, log |-> <<>>, res |-> "unreachable"]
      [] OTHER -> LET p == Pop(s) IN
                  [data |-> p.rest,
                   log |-> <<[node |-> p.node, idx |-> p.idx, len |-> p.len]>>,
                   res |-> "Popped"]

\* The match of ascend on self.data.len().
Simple_ascend_on(s) ==
    CASE Len(s) = 0 -> [data |-> s, log |-> <<>>, res |-> "unreachable"]
      [] Len(s) = 1 -> [data |-> s, log |-> <<>>, res |-> "AtRoot"]
      [] OTHER -> LET p == Pop(s) IN
                  [data |-> p.rest,
                   log |-> <<[node |-> p.node, idx |-> p.idx, len |-> p.len]>>,
                   res |-> "Popped"]

Simple_ascend(c) ==
    /\ backend = "simple" /\ pc[c] = "live"
    /\ LET a == Simple_ascend_on(data[c]) IN
       /\ data' = [data EXCEPT ![c] = a.data]
       /\ released' = a.log
       /\ result' = a.res
    /\ mark' = Tally(c, result')
    /\ UNCHANGED <<backend, forest, visited, pc, root, held, poisoned, tokens, leaked>>

Simple_ascend_while_once(s, P, log) ==
    IF Len(s) # 1 /\ Top(s) \in P
    THEN LET a == Simple_ascend_on(s) IN [data |-> a.data, log |-> log \o a.log]
    ELSE [data |-> s, log |-> log]

RECURSIVE Simple_ascend_while_on(_, _, _)
\* The loop of ascend_while; the predicate is true exactly of the nodes in P.
Simple_ascend_while_on(s, P, log) ==
    IF Len(s) # 1 /\ Top(s) \in P
    THEN LET a == Simple_ascend_on(s) IN Simple_ascend_while_on(a.data, P, log \o a.log)
    ELSE [data |-> s, log |-> log]

Simple_ascend_while(c, P) ==
    /\ backend = "simple" /\ pc[c] = "live"
    /\ LET w == Simple_ascend_while_on(data[c], P, <<>>) IN
       /\ data' = [data EXCEPT ![c] = w.data]
       /\ released' = w.log
       /\ result' = "Ok"
    /\ UNCHANGED <<backend, forest, visited, mark, pc, root, held, poisoned, tokens, leaked>>

Simple_move_with(c, d) ==
    /\ backend = "simple" /\ pc[c] = "live"
    /\ CASE d.kind = "Ascend" ->
              LET a == Simple_ascend_on(data[c]) IN
              /\ data' = [data EXCEPT ![c] = a.data]
              /\ released' = a.log
              /\ result' = ok_or_AscendAtRoot(a.res)
         [] d.kind = "Stay" ->
              /\ result' = "Ok"
              /\ released' = <<>>
              /\ UNCHANGED data
         [] d.kind \in {"Inject", "Descend"} ->
              /\ Len(data[c]) < MaxDepth
              /\ data' = [data EXCEPT ![c] = Push(@, d.node)]
              /\ result' = "Ok"
              /\ released' = <<>>
    /\ UNCHANGED <<backend, forest, visited, mark, pc, root, held, poisoned, tokens, leaked>>

\* into_top copies the top pointer out; the Vec of raw pointers is then freed.
Simple_into_top(c) ==
    /\ backend = "simple" /\ pc[c] = "live"
    /\ LET t == Truncate(data[c], 0) IN
       /\ data' = [data EXCEPT ![c] = t.rest]
       /\ released' = t.log
    /\ pc' = [pc EXCEPT ![c] = "none"]
    /\ root' = [root EXCEPT ![c] = NoNode]
    /\ result' = "Ok"
    /\ UNCHANGED <<backend, forest, visited, mark, held, poisoned, tokens, leaked>>

Simple_to_root(c) ==
    /\ backend = "simple" /\ pc[c] = "live"
    /\ LET t == Truncate(data[c], 1) IN
       /\ data' = [data EXCEPT ![c] = t.rest]
       /\ released' = t.log
    /\ result' = "Ok"
    /\ UNCHANGED <<backend, forest, visited, mark, pc, root, held, poisoned, tokens, leaked>>

\* MutRefStack has no Drop impl: dropping it frees the Vec of raw pointers.
Simple_drop(c) ==
    /\ backend = "simple" /\ pc[c] = "live"
    /\ LET t == Truncate(data[c], 0) IN
       /\ data' = [data EXCEPT ![c] = t.rest]
       /\ released' = t.log
    /\ pc' = [pc EXCEPT ![c] = "none"]
    /\ root' = [root EXCEPT ![c] = NoNode]
    /\ result' = "Ok"
    /\ UNCHANGED <<backend, forest, visited, mark, held, poisoned, tokens, leaked>>

Simple_Next ==
    \/ \E c \in Cursors, n \in Nodes : Simple_new(c, n) \/ Simple_inject_top(c, n)
    \/ \E c \in Cursors, f \in NavFns : Simple_inject_with(c, f) \/ Simple_descend_with(c, f)
    \/ \E c \in Cursors : Simple_ascend(c) \/ Simple_to_root(c) \/ Simple_into_top(c) \/ Simple_drop(c)
    \/ \E c \in Cursors : \E P \in SUBSET Range(data[c]) : Simple_ascend_while(c, P)
    \/ \E c \in Cursors, d \in MoveDecision : Simple_move_with(c, d)

Next == Simple_Next \/ RefCell_Next \/ Mutex_Next

Spec == Init /\ [][Next]_vars

\* =========================================================== with_data.rs
\* MutRefStackWithData: `data: Vec<(*mut T, U)>`, a frame is the pair <<node, addl>>.
\* The pointer half of a frame behaves as in simple.rs; the walks here go along
\* `next` only, the values of U vary. A result is [res, items]: items holds the
\* auxiliary values handed back (none, the Some(addl) of ascend / move_with, or the
\* sequence ascend_while collected); a record of `released` has the field addl too.
Aux == 1..NumAux

Ptr(frame) == frame[1]
Addl(frame) == frame[2]

\* `ref mut addl` of the top frame written through by a closure or by the caller.
SetAddl(s, u) == [s EXCEPT ![Len(s)] = <<Ptr(@), u>>]

\* The closures of descend_with / inject_with: (node, &mut addl) -> Option<(node, U)>.
\* `set` is the value the closure leaves in the current top's addl.
WithDataNavFns == {"next", "none"}
WithDataClosure == [nav : WithDataNavFns, addl : Aux, set : Aux]

\* The decisions a move_with closure can return, with what it leaves in the top's addl.
WithDataDecision ==
    [kind : {"Ascend", "Stay"}, nav : {"none"}, addl : {1}, set : Aux]
       \cup [kind : {"Descend", "Inject"}, nav : {"next"}, addl : Aux, set : Aux]

None == <<>>
Some(u) == <<u>>

\* Dropping a Vec drops its elements from the first to the last.
DropVec(s) ==
    [i \in 1..Len(s) |-> [node |-> Ptr(s[i]), idx |-> i, len |-> Len(s), addl |-> Addl(s[i])]]

InitWithData ==
    /\ backend = "with_data"
    /\ data = [c \in Cursors |-> <<>>]
    /\ pc = [c \in Cursors |-> "none"]
    /\ root = [c \in Cursors |-> NoNode]
    /\ held = [n \in Nodes |-> FALSE]
    /\ poisoned = [n \in Nodes |-> FALSE]
    /\ tokens = {}
    /\ leaked = {}
    /\ result = [res |-> "init", items |-> None]
    /\ released = <<>>
    /\ mark = NoMark
    /\ forest = NoForest
    /\ visited = <<>>

\* A MutRefStackWithData borrows its root exclusively for 'root: one cursor per structure.
WithData_new(c, r, additional_data) ==
    /\ backend = "with_data" /\ c = 1 /\ pc[c] = "none"
    /\ data' = [data EXCEPT ![c] = << <<r, additional_data>> >>]
    /\ pc' = [pc EXCEPT ![c] = "live"]
    /\ root' = [root EXCEPT ![c] = r]
    /\ result' = [res |-> "Ok", items |-> None]
    /\ released' = <<>>
    /\ UNCHANGED <<backend, forest, visited, mark, held, poisoned, tokens, leaked>>

\* The caller writes u through the `&mut U` that top_mut returns.
WithData_top_mut(c, u) ==
    /\ backend = "with_data" /\ pc[c] = "live"
    /\ data' = [data EXCEPT ![c] = SetAddl(@, u)]
    /\ result' = [res |-> "Ok", items |-> None]
    /\ released' = <<>>
    /\ UNCHANGED <<backend, forest, visited, mark, pc, root, held, poisoned, tokens, leaked>>

\* descend_with and inject_with: `let (desc, new_addl) = f(node, addl)?; self.data.push(..)`.
WithData_push_with(s, f) ==
    LET after_f == SetAddl(s, f.set)
        new_top == Navigate(f.nav, Ptr(Top(s)))
    IN IF new_top = NoNode
       THEN [data |-> after_f, res |-> "NoEdge"]
       ELSE [data |-> Push(after_f, <<new_top, f.addl>>), res |-> "Ok"]

WithData_descend_with(c, f) ==
    /\ backend = "with_data" /\ pc[c] = "live" /\ Len(data[c]) < MaxDepth
    /\ LET p == WithData_push_with(data[c], f) IN
       /\ data' = [data EXCEPT ![c] = p.data]
       /\ result' = [res |-> p.res, items |-> None]
    /\ released' = <<>>
    /\ UNCHANGED <<backend, forest, visited, mark, pc, root, held, poisoned, tokens, leaked>>

WithData_inject_with(c, f) ==
    /\ backend = "with_data" /\ pc[c] = "live" /\ Len(data[c]) < MaxDepth
    /\ LET p == WithData_push_with(data[c], f) IN
       /\ data' = [data EXCEPT ![c] = p.data]
       /\ result' = [res |-> p.res, items |-> None]
    /\ released' = <<>>
    /\ UNCHANGED <<backend, forest, visited, mark, pc, root, held, poisoned, tokens, leaked>>

WithData_ascend_on_new_top_addl(s) ==
    CASE Len(s) = 0 -> [data |-> s, log |-> <<>>, res |-> "unreachable", items |-> None]
      [] Len(s) = 1 -> [data |-> s, log |-> <<>>, res |-> "AtRoot", items |-> None]
      [] OTHER -> LET p == Pop(s) IN
                  [data |-> p.rest,
                   log |-> <<[node |-> Ptr(p.node), idx |-> p.idx, len |-> p.len,
                              addl |-> Addl(p.node)]>>,
                   res |-> "Popped", items |-> Some(Addl(Top(p.rest)))]

\* `match self.data.len()` of ascend: the popped frame's addl goes to the caller.
WithData_ascend_on(s) ==
    CASE Len(s) = 0 -> [data |-> s, log |-> <<>>, res |-> "unreachable", items |-> None]
      [] Len(s) = 1 -> [data |-> s, log |-> <<>>, res |-> "AtRoot", items |-> None]
      [] OTHER -> LET p == Pop(s) IN
                  [data |-> p.rest,
                   log |-> <<[node |-> Ptr(p.node), idx |-> p.idx, len |-> p.len,
                              addl |-> Addl(p.node)]>>,
                   res |-> "Popped", items |-> Some(Addl(p.node))]

WithData_ascend(c) ==
    /\ backend = "with_data" /\ pc[c] = "live"
    /\ LET a == WithData_ascend_on(data[c]) IN
       /\ data' = [data EXCEPT ![c] = a.data]
       /\ released' = a.log
       /\ result' = [res |-> a.res, items |-> a.items]
    /\ UNCHANGED <<backend, forest, visited, mark, pc, root, held, poisoned, tokens, leaked>>

push_back(items, addl) == Append(items, addl)
\* VecDeque::push_front
push_front(items, addl) == <<addl>> \o items

WithData_ascend_while_once(s, P, log, items, calls) ==
    IF Len(s) = 1
    THEN [data |-> s, log |-> log, items |-> items, calls |-> calls]
    ELSE IF Top(s) \notin P
         THEN [data |-> s, log |-> log, items |-> items, calls |-> Append(calls, Len(s))]
         ELSE LET a == WithData_ascend_on(s) IN
              [data |-> a.data, log |-> log \o a.log,
               items |-> push_front(items, a.items[1]), calls |-> Append(calls, Len(s))]

RECURSIVE WithData_ascend_while_predicate_first(_, _, _, _, _)
WithData_ascend_while_predicate_first(s, P, log, items, calls) ==
    IF Top(s) \notin P \/ Len(s) = 1
    THEN [data |-> s, log |-> log, items |-> items, calls |-> Append(calls, Len(s))]
    ELSE LET a == WithData_ascend_on(s) IN
         WithData_ascend_while_predicate_first(a.data, P, log \o a.log,
                                               push_front(items, a.items[1]),
                                               Append(calls, Len(s)))

RECURSIVE WithData_ascend_while_on(_, _, _, _, _)
\* The loop of ascend_while: `while !self.is_at_root() { if !predicate(top, addl)
\* { break; } .. }`. The predicate is true exactly of the frames in P and writes
\* nothing through its `&mut U`; calls lists the frames (by their position in the
\* Vec, counted from 1) the predicate was called on, in the order of the calls.
WithData_ascend_while_on(s, P, log, items, calls) ==
    IF Len(s) = 1
    THEN [data |-> s, log |-> log, items |-> items, calls |-> calls]
    ELSE IF Top(s) \notin P
         THEN [data |-> s, log |-> log, items |-> items, calls |-> Append(calls, Len(s))]
         ELSE LET a == WithData_ascend_on(s) IN
              WithData_ascend_while_on(a.data, P, log \o a.log,
                                       push_front(items, a.items[1]), Append(calls, Len(s)))

WithData_ascend_while(c, P) ==
    /\ backend = "with_data" /\ pc[c] = "live"
    /\ LET w == WithData_ascend_while_on(data[c], P, <<>>, <<>>, <<>>) IN
       /\ data' = [data EXCEPT ![c] = w.data]
       /\ released' = w.log
       /\ result' = [res |-> "Collected", items |-> w.items, calls |-> w.calls]
    /\ UNCHANGED <<backend, forest, visited, mark, pc, root, held, poisoned, tokens, leaked>>

\* What the closure of move_with returns when it follows the edge d.nav of the top
\* node: the decision with the reference it found.
WithData_f(s, d) ==
    [kind |-> d.kind, node |-> Navigate(d.nav, Ptr(Top(s))), addl |-> d.addl, set |-> d.set]

WithData_move_with_some_always(s, d) ==
    LET after_f == SetAddl(s, d.set) IN
    CASE d.kind = "Ascend" ->
           LET a == WithData_ascend_on(after_f) IN
           [data |-> a.data, log |-> a.log, res |-> ok_or_AscendAtRoot(a.res), items |-> a.items]
      [] d.kind = "Stay" ->
           [data |-> after_f, log |-> <<>>, res |-> "Ok", items |-> Some(Addl(Top(after_f)))]
      [] d.kind \in {"Inject", "Descend"} ->
           [data |-> Push(after_f, <<d.node, d.addl>>),
            log |-> <<>>, res |-> "Ok", items |-> Some(d.addl)]

\* The match of move_with on the decision d of the closure, which has left d.set in
\* the addl of the top frame.
WithData_move_with_on(s, d) ==
    LET after_f == SetAddl(s, d.set) IN
    CASE d.kind = "Ascend" ->
           LET a == WithData_ascend_on(after_f) IN
           [data |-> a.data, log |-> a.log, res |-> ok_or_AscendAtRoot(a.res), items |-> a.items]
      [] d.kind = "Stay" ->
           [data |-> after_f, log |-> <<>>, res |-> "Ok", items |-> None]
      [] d.kind \in {"Inject", "Descend"} ->
           [data |-> Push(after_f, <<d.node, d.addl>>),
            log |-> <<>>, res |-> "Ok", items |-> None]

WithData_move_with(c, d) ==
    /\ backend = "with_data" /\ pc[c] = "live"
    /\ d.kind \in {"Inject", "Descend"} => Len(data[c]) < MaxDepth
    /\ LET m == WithData_move_with_on(data[c], WithData_f(data[c], d)) IN
       /\ data' = [data EXCEPT ![c] = m.data]
       /\ released' = m.log
       /\ result' = [res |-> m.res, items |-> m.items]
    /\ UNCHANGED <<backend, forest, visited, mark, pc, root, held, poisoned, tokens, leaked>>

\* into_top(self) copies the top pointer out; self is dropped when it returns.
WithData_into_top(c) ==
    /\ backend = "with_data" /\ pc[c] = "live"
    /\ data' = [data EXCEPT ![c] = <<>>]
    /\ released' = DropVec(data[c])
    /\ pc' = [pc EXCEPT ![c] = "none"]
    /\ root' = [root EXCEPT ![c] = NoNode]
    /\ result' = [res |-> "Ok", items |-> None]
    /\ UNCHANGED <<backend, forest, visited, mark, held, poisoned, tokens, leaked>>

\* MutRefStackWithData has no Drop impl: dropping the cursor drops its Vec.
WithData_drop(c) ==
    /\ backend = "with_data" /\ pc[c] = "live"
    /\ data' = [data EXCEPT ![c] = <<>>]
    /\ released' = DropVec(data[c])
    /\ pc' = [pc EXCEPT ![c] = "none"]
    /\ root' = [root EXCEPT ![c] = NoNode]
    /\ result' = [res |-> "Ok", items |-> None]
    /\ UNCHANGED <<backend, forest, visited, mark, held, poisoned, tokens, leaked>>

WithData_Next ==
    \/ \E c \in Cursors, r \in Nodes, u \in Aux : WithData_new(c, r, u)
    \/ \E c \in Cursors, u \in Aux : WithData_top_mut(c, u)
    \/ \E c \in Cursors, f \in WithDataClosure :
          WithData_descend_with(c, f) \/ WithData_inject_with(c, f)
    \/ \E c \in Cursors : WithData_ascend(c) \/ WithData_into_top(c) \/ WithData_drop(c)
    \/ \E c \in Cursors : \E P \in SUBSET Range(data[c]) : WithData_ascend_while(c, P)
    \/ \E c \in Cursors, d \in WithDataDecision : WithData_move_with(c, d)

SpecWithData == InitWithData /\ [][WithData_Next]_vars

\* Cursors of all four kinds that are created, moved by descend_with, inject_with
\* and move_with, and dropped.
AcquireInit == Init \/ InitWithData
AcquireNext ==
    \/ \E c \in Cursors, r \in Nodes : Simple_new(c, r) \/ RefCell_new(c, r) \/ Mutex_new(c, r)
    \/ \E c \in Cursors, r \in Nodes, u \in Aux : WithData_new(c, r, u)
    \/ \E c \in Cursors, f \in NavFns :
          \/ Simple_descend_with(c, f) \/ Simple_inject_with(c, f)
          \/ RefCell_descend_with(c, f) \/ RefCell_inject_with(c, f)
    \/ \E c \in Cursors, f \in NavFns, ip \in BOOLEAN :
          Mutex_descend_with(c, f, ip) \/ Mutex_inject_with(c, f, ip)
    \/ \E c \in Cursors, f \in WithDataClosure :
          WithData_descend_with(c, f) \/ WithData_inject_with(c, f)
    \/ \E c \in Cursors, d \in MoveDecision : Simple_move_with(c, d) \/ RefCell_move_with(c, d)
    \/ \E c \in Cursors, d \in MoveDecision, ip \in BOOLEAN : Mutex_move_with(c, d, ip)
    \/ \E c \in Cursors, d \in WithDataDecision : WithData_move_with(c, d)
    \/ \E c \in Cursors :
          \/ Simple_drop(c) \/ RefCell_drop(c) \/ Mutex_drop(c) \/ WithData_drop(c)
          \/ Mutex_into_inner(c)
AcquireSpec == AcquireInit /\ [][AcquireNext]_vars

\* ============================================================== forest.rs
\* preorder_traverse walks a Forest with a MutRefStackWithData whose T is a slice
\* [ForestNode] and whose U is the TraversalState. A forest is the function from its
\* nodes 0..n-1 to their parents; the slice `children` of node i is named i, the
\* slice `roots` is named RootSlice, and a slice lists its nodes in ascending order.
RootSlice == -1

ForestsOf(n) == {p \in [0..(n - 1) -> -1..(n - 2)] : \A i \in 0..(n - 1) : p[i] < i}
Forests == UNION {ForestsOf(n) : n \in 0..MaxForestNodes}

\* The forest that main builds: roots 0, 4, 5, 6; 1, 2, 3 under 0; the chain 6 - 7 - 8 - 9.
MainForest ==
    [i \in 0..9 |-> CASE i \in 1..3 -> 0
                      [] i \in 7..9 -> i - 1
                      [] OTHER -> RootSlice]

RECURSIVE Ascending(_)
Ascending(S) ==
    IF S = {} THEN <<>>
    ELSE LET m == CHOOSE x \in S : \A y \in S : x <= y IN <<m>> \o Ascending(S \ {m})

\* The Vec `roots` (slice = RootSlice) or `children` of a node, as the sequence of its nodes.
element(F, slice) == Ascending({i \in DOMAIN F : F[i] = slice})

TraversalState(next_index, depth) == [next_index |-> next_index, depth |-> depth]

Forest_closure_same_depth(F, frame) ==
    LET elem == element(F, Ptr(frame))
        state == Addl(frame)
    IN IF state.next_index >= Len(elem)
       THEN [kind |-> "Ascend", node |-> NoNode, addl |-> state, set |-> state, call |-> <<>>]
       ELSE [kind |-> "Descend", node |-> elem[state.next_index + 1],
             addl |-> TraversalState(0, state.depth),
             set |-> [state EXCEPT !.next_index = @ + 1],
             call |-> << <<elem[state.next_index + 1], state.depth>> >>]

Forest_closure_skip_sibling(F, frame) ==
    LET elem == element(F, Ptr(frame))
        state == Addl(frame)
    IN IF state.next_index >= Len(elem)
       THEN [kind |-> "Ascend", node |-> NoNode, addl |-> state, set |-> state, call |-> <<>>]
       ELSE [kind |-> "Descend", node |-> elem[state.next_index + 1],
             addl |-> TraversalState(0, state.depth + 1),
             set |-> [state EXCEPT !.next_index = @ + 2],
             call |-> << <<elem[state.next_index + 1], state.depth>> >>]

\* The closure preorder_traverse hands to move_with, run on the top frame: its
\* decision, what it leaves in the TraversalState of the top (set), and the call of
\* the callback it makes (call), if any. Rust indexes the slice from 0.
Forest_closure(F, frame) ==
    LET elem == element(F, Ptr(frame))
        state == Addl(frame)
    IN IF state.next_index >= Len(elem)
       THEN [kind |-> "Ascend", node |-> NoNode, addl |-> state, set |-> state, call |-> <<>>]
       ELSE [kind |-> "Descend", node |-> elem[state.next_index + 1],
             addl |-> TraversalState(0, state.depth + 1),
             set |-> [state EXCEPT !.next_index = @ + 1],
             call |-> << <<elem[state.next_index + 1], state.depth>> >>]

ForestInit ==
    /\ backend = "with_data"
    /\ data = [c \in Cursors |-> <<>>]
    /\ pc = [c \in Cursors |-> "none"]
    /\ root = [c \in Cursors |-> NoNode]
    /\ held = [n \in Nodes |-> FALSE]
    /\ poisoned = [n \in Nodes |-> FALSE]
    /\ tokens = {}
    /\ leaked = {}
    /\ result = [res |-> "init", items |-> None]
    /\ released = <<>>
    /\ mark = NoMark
    /\ forest \in Forests \cup {MainForest}
    /\ visited = <<>>

\* `let mut cursor = MutRefStackWithData::new(&mut *tree.roots, TraversalState { 0, 0 })`
preorder_traverse_new(c) ==
    /\ result.res = "init"
    /\ WithData_new(c, RootSlice, TraversalState(0, 0))

\* One turn of the loop: the move_with call with the closure; an Err leaves the loop.
preorder_traverse_loop(c) ==
    /\ backend = "with_data" /\ pc[c] = "live"
    /\ LET d == Forest_closure(forest, Top(data[c]))
           m == WithData_move_with_on(data[c], d)
       IN /\ visited' = visited \o d.call
          /\ data' = [data EXCEPT ![c] = m.data]
          /\ released' = m.log
          /\ result' = [res |-> m.res, items |-> m.items]
          /\ pc' = [pc EXCEPT ![c] = IF m.res = "Ok" THEN "live" ELSE "exited"]
    /\ UNCHANGED <<backend, forest, mark, root, held, poisoned, tokens, leaked>>

\* preorder_traverse returns after the break: the cursor goes out of scope.
preorder_traverse_return(c) ==
    /\ backend = "with_data" /\ pc[c] = "exited"
    /\ data' = [data EXCEPT ![c] = <<>>]
    /\ released' = DropVec(data[c])
    /\ pc' = [pc EXCEPT ![c] = "none"]
    /\ root' = [root EXCEPT ![c] = NoNode]
    /\ result' = [res |-> "Returned", items |-> None]
    /\ UNCHANGED <<backend, forest, visited, mark, held, poisoned, tokens, leaked>>

ForestNext ==
    \E c \in Cursors :
       preorder_traverse_new(c) \/ preorder_traverse_loop(c) \/ preorder_traverse_return(c)

ForestSpec == ForestInit /\ [][ForestNext]_vars

\* The loop of preorder_traverse is straight-line code: it keeps running.
ForestFairSpec == ForestSpec /\ WF_vars(ForestNext)

\* ======================================================== move_with_async
\* `async fn move_with_async`: the future it returns borrows the cursor mutably, so
\* no other call on that cursor can be made before the future has ended or has
\* been dropped. Polling runs the body up to `f(..).await` (pc = "suspended");
\* once the decision future is ready the body runs the match to its end.
Suspend(c) ==
    /\ pc[c] = "live"
    /\ pc' = [pc EXCEPT ![c] = "suspended"]
    /\ result' = "Pending"
    /\ released' = <<>>
    /\ UNCHANGED <<backend, forest, visited, mark, data, root, held, poisoned, tokens, leaked>>

Mutex_move_with_async_poll_locks_top(c) ==
    /\ backend = "mutex"
    /\ pc[c] = "live"
    /\ pc' = [pc EXCEPT ![c] = "suspended"]
    /\ result' = "Pending"
    /\ released' = <<>>
    /\ held' = [held EXCEPT ![next(Top(data[c]))] = TRUE]
    /\ UNCHANGED <<backend, forest, visited, mark, data, root, poisoned, tokens, leaked>>

Simple_move_with_async_poll(c) == backend = "simple" /\ Suspend(c)
RefCell_move_with_async_poll(c) == backend = "refcell" /\ Suspend(c)
Mutex_move_with_async_poll(c) == backend = "mutex" /\ Suspend(c)

\* The decision future is ready with d: the match of move_with_async.
Simple_move_with_async_ready(c, d) ==
    /\ backend = "simple" /\ pc[c] = "suspended"
    /\ CASE d.kind = "Ascend" ->
              LET a == Simple_ascend_on(data[c]) IN
              /\ data' = [data EXCEPT ![c] = a.data]
              /\ released' = a.log
              /\ result' = ok_or_AscendAtRoot(a.res)
         [] d.kind = "Stay" ->
              /\ result' = "Ok"
              /\ released' = <<>>
              /\ UNCHANGED data
         [] d.kind \in {"Inject", "Descend"} ->
              /\ Len(data[c]) < MaxDepth
              /\ data' = [data EXCEPT ![c] = Push(@, d.node)]
              /\ result' = "Ok"
              /\ released' = <<>>
    /\ pc' = [pc EXCEPT ![c] = "live"]
    /\ UNCHANGED <<backend, forest, visited, mark, root, held, poisoned, tokens, leaked>>

RefCell_move_with_async_ready(c, d) ==
    /\ backend = "refcell" /\ pc[c] = "suspended"
    /\ CASE d.kind = "Ascend" ->
              LET a == RefCell_ascend_on(data[c]) IN
              /\ data' = [data EXCEPT ![c] = a.data]
              /\ held' = Release(held, a.log)
              /\ released' = a.log
              /\ result' = ok_or_AscendAtRoot(a.res)
         [] d.kind = "Stay" ->
              /\ result' = "Ok"
              /\ released' = <<>>
              /\ UNCHANGED <<data, held>>
         [] d.kind \in {"Inject", "Descend"} ->
              LET borrow == try_borrow_mut(d.node) IN
              /\ IF borrow = "Ok"
                 THEN /\ data' = [data EXCEPT ![c] = Push(@, d.node)]
                      /\ held' = [held EXCEPT ![d.node] = TRUE]
                      /\ result' = "Ok"
                 ELSE /\ result' = borrow
                      /\ UNCHANGED <<data, held>>
              /\ released' = <<>>
    /\ pc' = [pc EXCEPT ![c] = "live"]
    /\ UNCHANGED <<backend, forest, visited, mark, root, poisoned, tokens, leaked>>

Mutex_move_with_async_ready(c, d, ignore_poison) ==
    /\ backend = "mutex" /\ pc[c] = "suspended"
    /\ CASE d.kind = "Ascend" ->
              LET a == Mutex_ascend_on(data[c]) IN
              /\ data' = [data EXCEPT ![c] = a.data]
              /\ held' = Release(held, a.log)
              /\ released' = a.log
              /\ result' = ok_or_AscendAtRoot(a.res)
         [] d.kind = "Stay" ->
              /\ result' = "Ok"
              /\ released' = <<>>
              /\ UNCHANGED <<data, held>>
         [] d.kind \in {"Inject", "Descend"} ->
              LET guard == try_lock(d.node)
                  h == Mutex_handle_move_trylock_result(data[c], d.node, guard, ignore_poison)
              IN /\ guard \in TryLockResult
                 /\ data' = [data EXCEPT ![c] = h.data]
                 /\ held' = h.held
                 /\ result' = h.res
                 /\ released' = <<>>
    /\ pc' = [pc EXCEPT ![c] = "live"]
    /\ UNCHANGED <<backend, forest, visited, mark, root, poisoned, tokens, leaked>>

\* The suspended future is dropped (the task is cancelled): the body never resumes
\* and the borrow of the cursor ends.
drop_future(c) ==
    /\ pc[c] = "suspended"
    /\ pc' = [pc EXCEPT ![c] = "live"]
    /\ result' = "Cancelled"
    /\ released' = <<>>
    /\ UNCHANGED <<backend, forest, visited, mark, data, root, held, poisoned, tokens, leaked>>

\* Cursors that are created, moved by the suspending move_with, ascended and dropped.
AsyncNext ==
    \/ \E c \in Cursors, r \in Nodes : Simple_new(c, r) \/ RefCell_new(c, r) \/ Mutex_new(c, r)
    \/ \E c \in Cursors :
          \/ Simple_move_with_async_poll(c)
          \/ RefCell_move_with_async_poll(c)
          \/ Mutex_move_with_async_poll(c)
    \/ \E c \in Cursors, d \in MoveDecision :
          Simple_move_with_async_ready(c, d) \/ RefCell_move_with_async_ready(c, d)
    \/ \E c \in Cursors, d \in MoveDecision, ip \in BOOLEAN : Mutex_move_with_async_ready(c, d, ip)
    \/ \E c \in Cursors : drop_future(c)
    \/ \E c \in Cursors : Simple_ascend(c) \/ RefCell_ascend(c) \/ Mutex_ascend(c)
    \/ \E c \in Cursors : Simple_drop(c) \/ RefCell_drop(c) \/ Mutex_drop(c) \/ Mutex_into_inner(c)

AsyncSpec == Init /\ [][AsyncNext]_vars

\* ================================================================ claims
\* A claim about one call is stated either on the steps of the behaviour, as
\* [][Call => Post]_vars, or on the states the call starts from, as
\* ~ENABLED (Call /\ ~Post): no reachable state lets the call break its postcondition.

Front(s) == SubSeq(s, 1, Len(s) - 1)

\* How many live tokens exist for node n: frames of all stacks, tokens returned
\* by into_top, tokens forgotten by into_top.
Frames(c, n) == Cardinality({i \in 1..Len(data[c]) : data[c][i] = n})
RECURSIVE SumFrames(_, _)
SumFrames(cs, n) ==
    IF cs = {} THEN 0
    ELSE LET c == CHOOSE x \in cs : TRUE IN Frames(c, n) + SumFrames(cs \ {c}, n)
TokenCount(n) ==
    SumFrames(Cursors, n) + (IF n \in tokens THEN 1 ELSE 0) + (IF n \in leaked THEN 1 ELSE 0)

\* A step that releases tokens pops them off one cursor's stack from the top down:
\* each released frame was the top frame when it was released, the released frames
\* are the top frames of that stack in reverse order, and no node is unlocked by a
\* cursor without its frame being popped.
LifoStep ==
    backend \in Checked =>
        /\ \A i \in 1..Len(released') :
              /\ released'[i].idx = released'[i].len
              /\ i > 1 => released'[i].len = released'[i - 1].len - 1
        /\ released' # <<>> =>
              \E c \in Cursors :
                 /\ Len(released') <= Len(data[c])
                 /\ \A i \in 1..Len(released') :
                       /\ released'[i].idx = Len(data[c]) - i + 1
                       /\ released'[i].node = data[c][Len(data[c]) - i + 1]
                 /\ data'[c] = SubSeq(data[c], 1, Len(data[c]) - Len(released'))
        /\ \A n \in Nodes :
              (held[n] /\ ~held'[n] /\ n \notin tokens) => n \in LogNodes(released')

\* C1: in the checked backends every token release of a cursor removes the token
\* that is the top of the stack at that moment, so frame i is released after every
\* frame above it.
C1_LifoRelease == [][LifoStep]_vars

\* A cursor of three frames or more was dropped: its tokens went root last.
C1_Witness ==
    /\ backend \in Checked
    /\ Len(released) >= 3
    /\ released[Len(released)].idx = 1
    /\ \A c \in Cursors : pc[c] = "none"

\* C2: in the checked backends no node ever has two live access tokens, counting
\* the frames of every cursor and the tokens into_top handed out or forgot.
C2_ExclusiveAccess ==
    backend \in Checked => \A n \in Nodes : TokenCount(n) <= 1

\* Two cursors are alive and the last acquisition was refused because the node is held.
C2_Witness ==
    /\ backend \in Checked
    /\ \A c \in Cursors : pc[c] = "live"
    /\ result \in {"BorrowMutError", "WouldBlock"}
    /\ \A n \in Nodes : TokenCount(n) = 1

\* The stack of c is the ring walked from its root: root, next(root), next(next(root)), ..
RingPath(c) ==
    /\ pc[c] = "live"
    /\ data[c][1] = root[c]
    /\ \A i \in 2..Len(data[c]) : data[c][i] = next(data[c][i - 1])

\* Nobody but cursor c holds a node.
Alone(c) == \A n \in Nodes : held[n] => n \in Range(data[c])

\* What a descend along next does on a ring path: a push while a node is left,
\* then the failure `err` on the way back into the root.
CyclePost(c, err) ==
    /\ Len(data[c]) < NumNodes =>
          (result' = "Ok" /\ data'[c] = Push(data[c], next(Top(data[c]))))
    /\ Len(data[c]) = NumNodes =>
          (result' = err /\ next(Top(data[c])) = root[c] /\ data' = data /\ held' = held)

\* C3: on the ring of n nodes a single-owner cursor that only descends along next
\* succeeds from the root until all n nodes are on its stack (n-1 descends), and
\* the descend after that, back into the root, fails with BorrowMutError.
C3_CycleRefCell ==
    \A c \in Cursors :
       (backend = "refcell" /\ RingPath(c) /\ Alone(c)) =>
          /\ ENABLED RefCell_descend_with(c, "next")
          /\ ~ENABLED (RefCell_descend_with(c, "next") /\ ~CyclePost(c, "BorrowMutError"))

\* The whole ring is on the stack and the descend into the root was refused.
C3_Witness ==
    /\ backend = "refcell"
    /\ \E c \in Cursors : Len(data[c]) = NumNodes /\ RingPath(c) /\ Alone(c)
    /\ result = "BorrowMutError"

\* C4: on a ring of n unpoisoned nodes a concurrent-backend cursor that only descends
\* along next with ignore_poison = false succeeds n-1 times from the root, and the
\* attempt after that fails with WouldBlock (not Poisoned, not AscendAtRoot).
C4_CycleMutex ==
    \A c \in Cursors :
       (backend = "mutex" /\ RingPath(c) /\ Alone(c) /\ \A n \in Nodes : ~poisoned[n]) =>
          /\ ENABLED Mutex_descend_with(c, "next", FALSE)
          /\ ~ENABLED (Mutex_descend_with(c, "next", FALSE) /\ ~CyclePost(c, "WouldBlock"))

\* The whole unpoisoned ring is on the stack and the descend into the root would block.
C4_Witness ==
    /\ backend = "mutex"
    /\ \A n \in Nodes : ~poisoned[n]
    /\ \E c \in Cursors : Len(data[c]) = NumNodes /\ RingPath(c) /\ Alone(c)
    /\ result = "WouldBlock"

Failures == {"BorrowMutError", "WouldBlock", "Poisoned", "AscendAtRoot"}

\* Some descend_with, inject_top, inject_with or move_with call of cursor c.
PushCall(c) ==
    \/ \E n \in Nodes : RefCell_inject_top(c, n) \/ Simple_inject_top(c, n)
    \/ \E n \in Nodes, ip \in BOOLEAN : Mutex_inject_top(c, n, ip)
    \/ \E f \in NavFns :
          \/ RefCell_inject_with(c, f) \/ RefCell_descend_with(c, f)
          \/ Simple_inject_with(c, f) \/ Simple_descend_with(c, f)
    \/ \E f \in NavFns, ip \in BOOLEAN : Mutex_inject_with(c, f, ip) \/ Mutex_descend_with(c, f, ip)
    \/ \E d \in MoveDecision : RefCell_move_with(c, d) \/ Simple_move_with(c, d)
    \/ \E d \in MoveDecision, ip \in BOOLEAN : Mutex_move_with(c, d, ip)

\* A step that returns a failure and changes a stack or a lock is no descend_with,
\* inject_top, inject_with or move_with call.
NoPartialPushStep ==
    (result' \in Failures /\ ~UNCHANGED <<data, held, pc, root, tokens, leaked>>) =>
       \A c \in Cursors : ~PushCall(c)

\* C5: a descend_with, inject_top, inject_with or move_with call that returns a
\* failure leaves the frames of the cursor and the nodes it holds as they were.
C5_NoPartialPush == [][NoPartialPushStep]_vars

\* A cursor two frames deep was refused a poisoned node, which is free afterwards.
C5_Witness ==
    /\ backend = "mutex"
    /\ result = "Poisoned"
    /\ \A c \in Cursors : pc[c] # "poison_err"
    /\ \E c \in Cursors : pc[c] = "live" /\ Len(data[c]) >= 2
    /\ \E n \in Nodes : poisoned[n] /\ ~held[n]

\* C6: a live cursor of any backend always has at least one frame, frame 0 is the
\* root it was created with, and in the checked backends the root is still held.
C6_RootFrame ==
    \A c \in Cursors :
       pc[c] \in {"live", "poison_err"} =>
          /\ Len(data[c]) >= 1
          /\ data[c][1] = root[c]
          /\ backend \in Checked => held[root[c]]

\* A cursor is back at its root after two or more frames were popped in one call.
C6_Witness ==
    /\ pc[1] = "live" /\ is_at_root(1)
    /\ \A c \in Cursors : c # 1 => pc[c] = "none"
    /\ Len(released) >= 2

\* After the drop of cursor c: no frame is left, every node it held was released
\* and is free, and an acquisition of it succeeds again.
DropPost(c) ==
    /\ data'[c] = <<>>
    /\ LogNodes(released') = Range(data[c])
    /\ \A n \in Range(data[c]) :
          /\ ~held'[n]
          /\ IF backend = "refcell"
             THEN (try_borrow_mut(n))' = "Ok"
             ELSE (try_lock(n))' \in {"Ok", "Poisoned"}

\* The drop of a cursor, recognised by its slot becoming free, ends as DropPost says.
DropReleasesStep ==
    \A c \in Cursors :
       (pc[c] # "none" /\ pc'[c] = "none" /\ (RefCell_drop(c) \/ Mutex_drop(c))) => DropPost(c)

\* C7: dropping a checked-backend cursor releases every token it held, the root's
\* included, so that each of those nodes can be acquired again.
C7_DropReleasesAll == [][DropReleasesStep]_vars

\* A cursor of two frames or more was dropped and nothing is held any more.
C7_Witness ==
    /\ backend \in Checked
    /\ Len(released) >= 2
    /\ \A c \in Cursors : pc[c] = "none"
    /\ \A n \in Nodes : ~held[n]

Refused == {"BorrowMutError", "WouldBlock"}

\* After into_top on a stack of two frames or more: only the top goes to the caller,
\* the frames below it are forgotten with their nodes still held.
IntoTopPost(c) ==
    /\ tokens' = tokens \cup {Top(data[c])}
    /\ leaked' = leaked \cup Range(Front(data[c]))
    /\ released' = <<>>
    /\ \A n \in Range(data[c]) : held'[n]

\* A step that keeps every forgotten ancestor forgotten and held.
AncestorsStayHeldStep ==
    /\ leaked \subseteq leaked'
    /\ \A n \in leaked : held'[n] /\ n \notin LogNodes(released')

\* Some call of cursor c that tries to acquire node n.
AcquireCall(c, n) ==
    \/ RefCell_new(c, n) \/ RefCell_inject_top(c, n) \/ Mutex_new(c, n)
    \/ \E ip \in BOOLEAN : Mutex_inject_top(c, n, ip)
    \/ \E d \in {"Descend", "Inject"} :
          \/ RefCell_move_with(c, [kind |-> d, node |-> n])
          \/ \E ip \in BOOLEAN : Mutex_move_with(c, [kind |-> d, node |-> n], ip)
    \/ \E f \in NavFns :
          /\ pc[c] = "live" /\ Navigate(f, Top(data[c])) = n
          /\ \/ RefCell_descend_with(c, f) \/ RefCell_inject_with(c, f)
             \/ \E ip \in BOOLEAN : Mutex_descend_with(c, f, ip) \/ Mutex_inject_with(c, f, ip)

\* into_top forgets the ancestors held, they are held whenever forgotten, and no
\* call that tries to acquire one of them gets anything but a refusal.
IntoTopLeaks ==
    /\ \A c \in Cursors :
          (pc[c] = "live" /\ Len(data[c]) >= 2) =>
             ~ENABLED ((RefCell_into_top(c) \/ Mutex_into_top(c)) /\ ~IntoTopPost(c))
    /\ \A n \in leaked : held[n]
    /\ \A c \in Cursors, n \in leaked : ~ENABLED (AcquireCall(c, n) /\ result' \notin Refused)

\* C8: after into_top on a checked-backend cursor at depth >= 1 the returned token
\* covers only the former top, and every ancestor stays exclusively held in all
\* later states, also after the returned token is released: no step releases it
\* and every later attempt to acquire it is refused.
C8_IntoTopLeaksAncestors == []IntoTopLeaks /\ [][AncestorsStayHeldStep]_vars

\* The returned token is gone, no cursor is left, only the forgotten ancestors are
\* held, and a new cursor on one of them was just refused.
C8_Witness ==
    /\ backend \in Checked
    /\ leaked # {} /\ tokens = {}
    /\ \A c \in Cursors : pc[c] = "none"
    /\ \A n \in Nodes : held[n] <=> n \in leaked
    /\ result \in Refused

\* The call completes at once, with one of the three results of a non-blocking
\* acquisition, and leaves the cursor ready for its next call.
Resolves(c) == result' \in TryLockResult /\ pc'[c] \in {"none", "live", "poison_err"}

\* Every acquisition a cursor of the concurrent backend may attempt is enabled and resolves.
NonBlocking ==
    backend = "mutex" =>
       \A c \in Cursors :
          /\ FreeSlot(c) => \A n \in Nodes : ENABLED (Mutex_new(c, n) /\ Resolves(c))
          /\ pc[c] = "live" =>
                \A ip \in BOOLEAN :
                   /\ \A n \in Nodes : ENABLED (Mutex_inject_top(c, n, ip) /\ Resolves(c))
                   /\ \A f \in NavFns \ {"none"} :
                         /\ ENABLED (Mutex_inject_with(c, f, ip) /\ Resolves(c))
                         /\ ENABLED (Mutex_descend_with(c, f, ip) /\ Resolves(c))
                   /\ \A n \in Nodes, d \in {"Descend", "Inject"} :
                         ENABLED (Mutex_move_with(c, [kind |-> d, node |-> n], ip) /\ Resolves(c))

\* C9: in the concurrent backend no cursor ever waits for a node: in every reachable
\* state, whatever the other cursors hold, each acquisition a cursor may attempt
\* (new, inject_top, inject_with, descend_with, move_with on any node, its own
\* ancestors included) can take its step and resolves to success, would-block or
\* poisoned.
C9_NonBlocking == []NonBlocking

\* Two cursors each hold the node the other one reaches next (opposite acquisition
\* orders) and the last attempt came back with WouldBlock.
C9_Witness ==
    /\ backend = "mutex"
    /\ pc[1] = "live" /\ pc[2] = "live"
    /\ is_at_root(1) /\ is_at_root(2)
    /\ next(root[1]) = root[2] /\ prev(root[2]) = root[1]
    /\ result = "WouldBlock"

\* What ascend does to the stack of c and what it returns.
AscendPost(c) ==
    /\ (result' = "AtRoot") <=> is_at_root(c)
    /\ is_at_root(c) => (data' = data /\ held' = held /\ released' = <<>>)
    /\ ~is_at_root(c) =>
          /\ result' = "Popped"
          /\ data'[c] = Front(data[c])
          /\ Top(data'[c]) = data[c][Len(data[c]) - 1]
          /\ Len(released') = 1
          /\ \A k \in Cursors : k # c => data'[k] = data[k]

\* C10: ascend() returns at-root exactly when is_at_root() holds, and then leaves
\* the stack unchanged; otherwise it pops exactly one frame and the new top is the
\* frame that was directly below the popped one.
C10_Ascend ==
    \A c \in Cursors :
       /\ pc[c] = "live" =>
             ENABLED (Simple_ascend(c) \/ RefCell_ascend(c) \/ Mutex_ascend(c))
       /\ ~ENABLED ((Simple_ascend(c) \/ RefCell_ascend(c) \/ Mutex_ascend(c)) /\ ~AscendPost(c))

\* ascend was called on a cursor at its root and answered at-root.
C10_Witness ==
    /\ result = "AtRoot"
    /\ \E c \in Cursors : pc[c] = "live" /\ is_at_root(c)

\* A move_with call of cursor c whose closure decides Ascend.
MoveAscend(c) ==
    LET d == [kind |-> "Ascend", node |-> NoNode] IN
    \/ Simple_move_with(c, d) \/ RefCell_move_with(c, d)
    \/ \E ip \in BOOLEAN : Mutex_move_with(c, d, ip)

\* The error exactly at the root with nothing changed; off the root what ascend does:
\* the top frame is popped, its token released, the frame below is the new top.
MoveAscendPost(c) ==
    /\ (result' = "AscendAtRoot") <=> is_at_root(c)
    /\ is_at_root(c) => (data' = data /\ held' = held /\ released' = <<>>)
    /\ ~is_at_root(c) =>
          /\ result' = "Ok"
          /\ data'[c] = Front(data[c])
          /\ Len(released') = 1 /\ released'[1].node = Top(data[c])
          /\ backend \in Checked => ~held'[Top(data[c])]
          /\ \A k \in Cursors : k # c => data'[k] = data[k]

\* C11: move_with with the decision Ascend fails with AscendAtRoot exactly when the
\* cursor is at its root, leaving the stack unchanged; in every other state it pops
\* exactly one frame, as ascend() does.
C11_MoveAscend ==
    \A c \in Cursors :
       /\ pc[c] = "live" => ENABLED MoveAscend(c)
       /\ ~ENABLED (MoveAscend(c) /\ ~MoveAscendPost(c))

\* move_with(Ascend) on a cursor at its root was answered with AscendAtRoot.
C11_Witness ==
    /\ result = "AscendAtRoot"
    /\ \E c \in Cursors : pc[c] = "live" /\ is_at_root(c)

\* ------------------------------------------- sequences of descend and ascend
\* The observation of cursor c begins: its frame count and its top are noted.
Observe(c) ==
    /\ mark = NoMark /\ pc[c] = "live"
    /\ mark' = [c |-> c, len |-> Len(data[c]), top |-> Top(data[c]), bal |-> 0]
    /\ UNCHANGED <<backend, forest, visited, data, pc, root, held, poisoned, tokens, leaked, result, released>>

\* Cursors that are only created, descended and ascended, one of them observed.
PathNext ==
    \/ \E c \in Cursors, r \in Nodes : Simple_new(c, r) \/ RefCell_new(c, r) \/ Mutex_new(c, r)
    \/ \E c \in Cursors : Observe(c)
    \/ \E c \in Cursors, f \in NavFns : Simple_descend_with(c, f) \/ RefCell_descend_with(c, f)
    \/ \E c \in Cursors, f \in NavFns, ip \in BOOLEAN : Mutex_descend_with(c, f, ip)
    \/ \E c \in Cursors : Simple_ascend(c) \/ RefCell_ascend(c) \/ Mutex_ascend(c)

PathSpec == Init /\ [][PathNext]_vars

\* The observed cursor has the frame count and the top it had when the observation began.
SameFrames == Len(data[mark.c]) = mark.len /\ Top(data[mark.c]) = mark.top

\* C12 as stated: after any sequence of descend / ascend calls in which the successful
\* ascends never exceed the successful descends, the frame count and the top node
\* are what they were before the sequence.
C12_NeverExceeds == mark # NoMark => SameFrames

\* C12, amended: after any sequence of descend / ascend calls in which the successful
\* ascends never exceed the successful descends and in the end equal them, the frame
\* count and the top node are what they were before the sequence; in between the
\* stack is longer by the descends not yet undone.
C12_BalancedPath ==
    mark # NoMark =>
       /\ Len(data[mark.c]) = mark.len + mark.bal
       /\ mark.bal = 0 => SameFrames

\* A descend was undone by an ascend above the frames the observation began with.
C12_Witness ==
    /\ mark # NoMark /\ mark.bal = 0 /\ mark.len >= 2
    /\ result = "Popped"

\* ascend_while of cursor c with a predicate that is true of every frame.
AscendWhileTrue(c) ==
    LET always == Range(data[c]) IN
    Simple_ascend_while(c, always) \/ RefCell_ascend_while(c, always) \/ Mutex_ascend_while(c, always)

\* What a plain ascend() answers on the stack s.
AscendResult(s) ==
    CASE backend = "simple" -> Simple_ascend_on(s).res
      [] backend = "refcell" -> RefCell_ascend_on(s).res
      [] backend = "mutex" -> Mutex_ascend_on(s).res

\* All d frames above the root were popped, one ascend each and from the top down,
\* the root is the top, and the next ascend() answers at-root.
ExhaustedPost(c) ==
    /\ Len(released') = Len(data[c]) - 1
    /\ \A i \in 1..Len(released') :
          released'[i].idx = Len(data[c]) - i + 1 /\ released'[i].len = released'[i].idx
    /\ data'[c] = <<root[c]>>
    /\ Len(data'[c]) = 1 /\ Top(data'[c]) = root[c]
    /\ AscendResult(data'[c]) = "AtRoot"

\* Every ascend_while call with an always-true predicate ends so.
ExhaustedStep ==
    \A c \in Cursors :
       (pc[c] = "live" /\ pc'[c] = "live" /\ AscendWhileTrue(c)) => ExhaustedPost(c)

\* C13: from a stack of depth d, ascend_while with an always-true predicate performs
\* exactly d ascends and leaves the cursor at the root (is_at_root() holds, the top is
\* the root node), and a following plain ascend() returns at-root.
C13_AscendWhileExhausts == [][ExhaustedStep]_vars

\* An unchecked cursor came down to its root in one ascend_while of two or more ascends.
C13_Witness ==
    /\ backend = "simple" /\ pc[1] = "live" /\ is_at_root(1)
    /\ Len(released) >= 2 /\ released[1].len > released[2].len
    /\ result = "Ok"

\* The frames of cursor c above its root.
AboveRoot(c) == SubSeq(data[c], 2, Len(data[c]))

\* After to_root: the root is the only frame and is still held, so that acquiring it
\* is refused; the d frames above it were released from the top down and each of
\* their nodes is free and can be acquired.
ToRootPost(c) ==
    /\ data'[c] = <<root[c]>>
    /\ held'[root[c]]
    /\ IF backend = "refcell"
       THEN (try_borrow_mut(root[c]))' = "BorrowMutError"
       ELSE (try_lock(root[c]))' = "WouldBlock"
    /\ Len(released') = Len(data[c]) - 1
    /\ \A i \in 1..Len(released') :
          /\ released'[i].idx = Len(data[c]) - i + 1
          /\ released'[i].node = data[c][Len(data[c]) - i + 1]
    /\ \A n \in Range(AboveRoot(c)) :
          /\ ~held'[n]
          /\ IF backend = "refcell"
             THEN (try_borrow_mut(n))' = "Ok"
             ELSE (try_lock(n))' \in {"Ok", "Poisoned"}
    /\ \A n \in Nodes \ Range(AboveRoot(c)) : held'[n] = held[n]

\* to_root can be called on every live checked-backend cursor and never ends otherwise.
ToRootHolds ==
    \A c \in Cursors :
       /\ (backend \in Checked /\ pc[c] = "live") =>
             ENABLED (RefCell_to_root(c) \/ Mutex_to_root(c))
       /\ ~ENABLED ((RefCell_to_root(c) \/ Mutex_to_root(c)) /\ ~ToRootPost(c))

\* C14: to_root on a checked-backend cursor at any depth d leaves exactly one frame,
\* the root, still held, and releases the tokens of all d frames above it: each of
\* their nodes can be acquired again afterwards while an acquisition of the root
\* still fails.
C14_ToRoot == []ToRootHolds

\* A concurrent-backend cursor is back at its root: the two or more nodes it
\* released are free and the root is locked.
C14_Witness ==
    /\ backend = "mutex" /\ result = "Ok"
    /\ \E c \in Cursors :
          /\ pc[c] = "live" /\ is_at_root(c) /\ held[root[c]]
          /\ Len(released) >= 2
          /\ released[Len(released)].idx = 2
          /\ \A n \in LogNodes(released) : ~held[n]

\* A descend_with or inject_with call of cursor c with the navigation function f.
NavigateCall(c, f) ==
    \/ Simple_descend_with(c, f) \/ Simple_inject_with(c, f)
    \/ RefCell_descend_with(c, f) \/ RefCell_inject_with(c, f)
    \/ \E ip \in BOOLEAN : Mutex_descend_with(c, f, ip) \/ Mutex_inject_with(c, f, ip)

\* The no-edge outcome, with every stack and every node's held / free state unchanged.
NoEdgePost ==
    /\ result' = "NoEdge" /\ result' \notin Failures
    /\ data' = data /\ held' = held /\ released' = <<>>
    /\ UNCHANGED <<pc, root, poisoned, tokens, leaked>>

\* A call without an edge is possible and never ends otherwise; a call with an edge
\* never returns the no-edge outcome.
NoEdgeHolds ==
    \A c \in Cursors :
       /\ (backend \in Checked /\ pc[c] = "live") => ENABLED NavigateCall(c, "none")
       /\ ~ENABLED (NavigateCall(c, "none") /\ ~NoEdgePost)
       /\ \A f \in NavFns \ {"none"} : ~ENABLED (NavigateCall(c, f) /\ result' = "NoEdge")

\* C15: when the navigation function passed to descend_with or inject_with returns
\* nothing, the call returns the no-edge outcome, which is none of the acquisition
\* failures, whatever nodes are held or poisoned (no acquisition is attempted), and
\* the stack and every node's held / free state are unchanged; a call whose
\* navigation function returns a node never returns the no-edge outcome.
C15_NoEdge == []NoEdgeHolds

\* A cursor two frames deep got the no-edge outcome while another cursor holds a node.
C15_Witness ==
    /\ backend \in Checked /\ result = "NoEdge"
    /\ pc[1] = "live" /\ pc[2] = "live"
    /\ \E c \in Cursors : Len(data[c]) >= 2

\* ------------------------------------------------ the data-augmented cursor
\* C16: across any cursor lifetime, dropping or abandoning a cursor at depth >= 1
\* included, the auxiliary value of frame i is released (destroyed or handed back)
\* strictly after the auxiliary value of every frame above it: whenever a step
\* releases several auxiliary values, it releases them from the top frame down.
C16_AuxLifo ==
    backend = "with_data" =>
       \A i, j \in 1..Len(released) : i < j => released[i].idx > released[j].idx

\* What ascend_while hands back: the auxiliary values of exactly the frames it
\* popped, top first, in the reverse of the order popped, so that the sequence
\* reads like the stack did, from the frame next to the new top up to the old top.
CollectPost(c) ==
    LET n == Len(released')
        d == Len(data[c])
    IN /\ data'[c] = SubSeq(data[c], 1, d - n)
       /\ \A i \in 1..n :
             /\ released'[i].idx = d - i + 1
             /\ released'[i].addl = Addl(data[c][d - i + 1])
       /\ Len(result'.items) = n
       /\ \A i \in 1..n :
             /\ result'.items[i] = released'[n - i + 1].addl
             /\ result'.items[i] = Addl(data[c][d - n + i])

\* Every ascend_while call ("Collected" is the result of no other call) ends so.
CollectStep ==
    \A c \in Cursors :
       (/\ backend = "with_data" /\ result'.res = "Collected"
        /\ \E P \in SUBSET Range(data[c]) : WithData_ascend_while(c, P)) => CollectPost(c)

\* C17: the sequence ascend_while returns holds exactly the auxiliary values of the
\* frames it popped, the frame nearest the final stopping point (popped last) first
\* and the frame nearest the original position (popped first) last: the reverse of
\* the order in which the frames were popped.
C17_CollectOrder == [][CollectStep]_vars

\* ascend_while stopped above the root and returned two or more values, not all alike.
C17_Witness ==
    /\ backend = "with_data" /\ pc[1] = "live" /\ ~is_at_root(1)
    /\ result.res = "Collected"
    /\ Len(result.items) >= 2 /\ Len(released) = Len(result.items)
    /\ result.items[1] # result.items[Len(result.items)]

\* ascend_while with an always-true predicate on a cursor of depth 3: the root
\* frame and three frames above it.
Depth3AscendWhile(c) ==
    /\ backend = "with_data" /\ result'.res = "Collected"
    /\ pc[c] = "live" /\ Len(data[c]) = 4
    /\ WithData_ascend_while(c, Range(data[c]))

\* The auxiliary value of the k-th frame above the root of cursor c, a0 for k = 0.
AuxAboveRoot(c, k) == Addl(data[c][k + 2])

Depth3TopFirstStep ==
    \A c \in Cursors :
       Depth3AscendWhile(c) =>
          result'.items = <<AuxAboveRoot(c, 2), AuxAboveRoot(c, 1), AuxAboveRoot(c, 0)>>

Depth3RootFirstStep ==
    \A c \in Cursors :
       Depth3AscendWhile(c) =>
          result'.items = <<AuxAboveRoot(c, 0), AuxAboveRoot(c, 1), AuxAboveRoot(c, 2)>>

\* C18 as stated: after three descends whose frames carry a0, a1, a2 (a0 nearest the
\* root, a2 pushed last), ascend_while with an always-true predicate returns the
\* sequence [a2, a1, a0].
C18_TopFirst == [][Depth3TopFirstStep]_vars

\* C18, amended: after three descends whose frames carry a0, a1, a2 (a0 nearest the
\* root, a2 pushed last), ascend_while with an always-true predicate returns the
\* sequence [a0, a1, a2].
C18_RootFirst == [][Depth3RootFirstStep]_vars

\* Three values came back from a cursor now at its root, the first unlike the last.
C18_Witness ==
    /\ backend = "with_data" /\ pc[1] = "live" /\ is_at_root(1)
    /\ result.res = "Collected" /\ Len(result.items) = 3
    /\ result.items[1] # result.items[3]

\* ascend() off the root hands back the addl of the frame it pops and takes
\* nothing else away: the frames that remain are the old ones below the top.
AscendAuxStep ==
    \A c \in Cursors :
       (backend = "with_data" /\ result'.res = "Popped" /\ WithData_ascend(c)) =>
          /\ ~is_at_root(c)
          /\ result'.items = Some(Addl(Top(data[c])))
          /\ data'[c] = Front(data[c])
          /\ Len(released') = 1 /\ released'[1].addl = Addl(Top(data[c]))

\* A frame is pushed with the addl its closure supplied, not with its parent's.
PushAuxStep ==
    \A c \in Cursors, f \in WithDataClosure :
       (/\ backend = "with_data" /\ Len(data'[c]) > Len(data[c])
        /\ (WithData_descend_with(c, f) \/ WithData_inject_with(c, f))) =>
          /\ Len(data'[c]) = Len(data[c]) + 1
          /\ Addl(Top(data'[c])) = f.addl

\* No step writes the addl of a frame that is not the top: between its push and
\* its pop the addl of a frame changes only by what is written while it is the top.
BelowTopUntouchedStep ==
    \A c \in Cursors :
       (backend = "with_data" /\ pc[c] = "live" /\ pc'[c] = "live") =>
          \A i \in 1..(Len(data[c]) - 1) : i <= Len(data'[c]) => data'[c][i] = data[c][i]

\* C19: ascend() off the root returns the popped frame's auxiliary value, which is
\* the value the closure supplied when that frame was pushed together with every
\* mutation made to it while it was the top, and it leaves the auxiliary values of
\* all remaining frames unchanged; no auxiliary value is duplicated or lost.
C19_AscendAux == [][AscendAuxStep /\ PushAuxStep /\ BelowTopUntouchedStep]_vars

\* ascend() handed back a value that differs from the one of the frame now on top.
C19_Witness ==
    /\ backend = "with_data" /\ pc[1] = "live" /\ Len(data[1]) >= 2
    /\ result.res = "Popped" /\ Len(result.items) = 1
    /\ result.items[1] # Addl(Top(data[1]))

\* What move_with does with the decision d, after the closure left d.set in the
\* addl of the top.
MoveWithPost(c, d) ==
    LET popping == d.kind = "Ascend" /\ ~is_at_root(c) IN
    /\ (result'.items # None) <=> popping
    /\ popping =>
          /\ result'.res = "Ok" /\ result'.items = Some(d.set)
          /\ data'[c] = Front(data[c])
          /\ Len(released') = 1 /\ released'[1].idx = Len(data[c])
    /\ (d.kind = "Ascend" /\ is_at_root(c)) =>
          /\ result'.res = "AscendAtRoot"
          /\ data'[c] = SetAddl(data[c], d.set) /\ released' = <<>>
    /\ d.kind = "Stay" =>
          /\ result'.res = "Ok"
          /\ data'[c] = SetAddl(data[c], d.set) /\ released' = <<>>
    /\ d.kind \in {"Descend", "Inject"} =>
          /\ result'.res = "Ok"
          /\ Len(data'[c]) = Len(data[c]) + 1
          /\ Addl(Top(data'[c])) = d.addl
          /\ Front(data'[c]) = SetAddl(data[c], d.set) /\ released' = <<>>

\* No move_with call that can be made ends otherwise.
MoveWithHolds ==
    \A c \in Cursors, d \in WithDataDecision :
       ~ENABLED (WithData_move_with(c, d) /\ ~MoveWithPost(c, d))

\* C20: the data-augmented move_with returns the popped frame's auxiliary value
\* (Some) exactly when the decision is Ascend and the cursor is not at the root; for
\* Stay, Descend and Inject it returns none, and for Descend / Inject the new top
\* frame carries the auxiliary value given in the decision. (Ascend at the root is
\* the AscendAtRoot error, with no frame popped.)
C20_MoveWithAux == []MoveWithHolds

\* move_with popped a frame on an Ascend decision and handed its value back.
C20_Witness ==
    /\ backend = "with_data" /\ pc[1] = "live"
    /\ result.res = "Ok" /\ Len(result.items) = 1
    /\ Len(released) = 1 /\ released[1].addl = result.items[1]

\* The calls of the callback on the forest of main, in the order the claim gives.
MainOrder ==
    << <<0, 0>>, <<1, 1>>, <<2, 1>>, <<3, 1>>, <<4, 0>>,
       <<5, 0>>, <<6, 0>>, <<7, 1>>, <<8, 2>>, <<9, 3>> >>

\* C21: on the forest of main (roots 0, 4, 5, 6; 1, 2, 3 under 0; the chain 7, 8, 9
\* under 6) the traversal calls the callback on the nodes 0, 1, .., 9 in this order
\* with the depths 0, 1, 1, 1, 0, 0, 0, 1, 2, 3: the calls made so far are always a
\* prefix of that list, and when the loop is left they are the whole list.
C21_ForestPreorder ==
    forest = MainForest =>
       /\ Len(visited) <= Len(MainOrder)
       /\ visited = SubSeq(MainOrder, 1, Len(visited))
       /\ result.res \in {"AscendAtRoot", "Returned"} => visited = MainOrder

\* The traversal of the forest of main has left its loop after ten calls of the callback.
C21_Witness ==
    /\ forest = MainForest /\ pc[1] = "exited"
    /\ Len(visited) = 10 /\ visited[10] = <<9, 3>>

\* An acquisition of node n by cursor c of the concurrent backend, through any of
\* the four operations that acquire.
MutexAcquire(c, n, ignore_poison) ==
    \/ Mutex_inject_top(c, n, ignore_poison)
    \/ \E f \in NavFns :
          /\ Navigate(f, Top(data[c])) = n
          /\ Mutex_inject_with(c, f, ignore_poison) \/ Mutex_descend_with(c, f, ignore_poison)
    \/ \E d \in MoveDecision :
          d.node = n /\ Mutex_move_with(c, d, ignore_poison)

\* What an acquisition of a free, poisoned node does.
PoisonPost(c, n, ignore_poison) ==
    IF ignore_poison
    THEN /\ result' = "Ok"
         /\ data' = [data EXCEPT ![c] = Push(@, n)]
         /\ held' = [held EXCEPT ![n] = TRUE]
    ELSE /\ result' = "Poisoned"
         /\ data' = data
         /\ held' = held

\* Every acquisition of a free, poisoned node can be made and ends so.
PoisonHolds ==
    \A c \in Cursors, n \in Nodes, ignore_poison \in BOOLEAN :
       (backend = "mutex" /\ pc[c] = "live" /\ poisoned[n] /\ ~held[n]) =>
          /\ ENABLED MutexAcquire(c, n, ignore_poison)
          /\ ~ENABLED (MutexAcquire(c, n, ignore_poison) /\ ~PoisonPost(c, n, ignore_poison))

\* C22: in the concurrent backend an acquisition (descend_with, inject_top,
\* inject_with, move_with) of a free but poisoned node with ignore_poison = false
\* fails with the poisoned failure, pushes no frame and leaves the node free; the
\* same attempt with ignore_poison = true succeeds, pushes the frame and locks the node.
C22_PoisonHandling == []PoisonHolds

\* An acquisition by a cursor of two frames has just failed with the poisoned
\* failure: the poisoned node is free and on no stack.
C22_Witness ==
    /\ backend = "mutex" /\ result = "Poisoned"
    /\ \E n \in Nodes : poisoned[n] /\ ~held[n] /\ \A c \in Cursors : n \notin Range(data[c])
    /\ \E c \in Cursors : pc[c] = "live" /\ Len(data[c]) >= 2

\* What descend_with / inject_with of the unchecked backend do with the closure f.
SimplePushPost(c, f) ==
    LET new_top == Navigate(f, Top(data[c])) IN
    IF new_top = NoNode
    THEN result' = "NoEdge" /\ data' = data
    ELSE result' = "Ok" /\ data' = [data EXCEPT ![c] = Push(@, new_top)]

\* What move_with of the unchecked backend does with the decision d.
SimpleMovePost(c, d) ==
    /\ result' \in {"Ok", "AscendAtRoot"}
    /\ result' = "AscendAtRoot" <=> (d.kind = "Ascend" /\ is_at_root(c))
    /\ d.kind \in {"Descend", "Inject"} => data' = [data EXCEPT ![c] = Push(@, d.node)]

\* C23: the unchecked backend never refuses access. new never fails; descend_with
\* and inject_with end with no-edge or with the frame pushed; inject_top always
\* pushes; the only failure of move_with is AscendAtRoot, for Ascend at the root.
\* So on the ring the descend from the last node back into the root succeeds and
\* the root is then in two frames of the stack. (MaxDepth caps the stack of the
\* model only: below the cap every push is possible.)
C23_UncheckedNeverRefuses ==
    backend = "simple" =>
       \A c \in Cursors :
          /\ (c = 1 /\ pc[c] = "none") =>
                \A r \in Nodes :
                   /\ ENABLED Simple_new(c, r)
                   /\ ~ENABLED (Simple_new(c, r) /\ ~(result' = "Ok" /\ data'[c] = <<r>>))
          /\ (pc[c] = "live" /\ Len(data[c]) < MaxDepth) =>
                /\ \A f \in NavFns :
                      /\ ENABLED Simple_descend_with(c, f)
                      /\ ENABLED Simple_inject_with(c, f)
                      /\ ~ENABLED (Simple_descend_with(c, f) /\ ~SimplePushPost(c, f))
                      /\ ~ENABLED (Simple_inject_with(c, f) /\ ~SimplePushPost(c, f))
                /\ \A n \in Nodes :
                      /\ ENABLED Simple_inject_top(c, n)
                      /\ ~ENABLED (Simple_inject_top(c, n)
                                     /\ ~(result' = "Ok" /\ data'[c] = Push(data[c], n)))
                /\ \A d \in MoveDecision :
                      /\ ENABLED Simple_move_with(c, d)
                      /\ ~ENABLED (Simple_move_with(c, d) /\ ~SimpleMovePost(c, d))
                /\ (RingPath(c) /\ Len(data[c]) = NumNodes) =>
                      ~ENABLED (Simple_descend_with(c, "next")
                                 /\ ~(/\ Top(data'[c]) = root[c]
                                      /\ Cardinality({i \in 1..Len(data'[c]) :
                                                         data'[c][i] = root[c]}) = 2))

\* The unchecked cursor went once around the ring: its root is the bottom and the top frame.
C23_Witness ==
    /\ backend = "simple" /\ RingPath(1) /\ result = "Ok"
    /\ Len(data[1]) = NumNodes + 1 /\ Top(data[1]) = root[1]

\* The steps of a suspending move_with of cursor c, and the steps taken by others
\* while it is suspended.
SuspendedStep ==
    \A c \in Cursors :
       \* the call, up to the await: nothing is touched
       /\ (pc[c] = "live" /\ pc'[c] = "suspended") =>
             UNCHANGED <<data, held, poisoned, tokens, leaked>>
       \* while it is suspended: its stack stays, its nodes stay held
       /\ (pc[c] = "suspended" /\ pc'[c] = "suspended") =>
             /\ data'[c] = data[c]
             /\ \A n \in Range(data[c]) : held'[n] = held[n]
       \* it leaves the suspension in one step, back to a cursor that can be called
       /\ pc[c] = "suspended" => pc'[c] \in {"suspended", "live"}
       \* cancelled: nothing is touched
       /\ (pc[c] = "suspended" /\ result' = "Cancelled") =>
             UNCHANGED <<data, held, poisoned, tokens, leaked>>
       \* the attempt, the push and the pop belong to the step that ends the suspension
       /\ (pc[c] = "suspended" /\ pc'[c] = "live" /\ result' # "Cancelled") =>
             /\ \/ data'[c] = data[c]
                \/ data'[c] = Front(data[c]) /\ result' = "Ok" /\ Len(released') = 1
                \/ Front(data'[c]) = data[c] /\ result' = "Ok"
                      /\ (backend \in Checked => ~held[Top(data'[c])] /\ held'[Top(data'[c])])
             /\ \A k \in Cursors \ {c} : data'[k] = data[k]

\* C24: from the call of move_with_async until the decision is known the call
\* changes neither the stack nor any node's held / free state; cancelling it while
\* it is suspended changes nothing either; the acquisition attempt and the push or
\* pop happen in the single step that follows the decision. (While a call is
\* suspended the other cursors go on; they never change the suspended cursor's
\* stack nor the state of the nodes on it.)
C24_SuspendingMove == [][SuspendedStep]_vars

\* A cursor pushed a frame at the end of a suspending move_with while another one
\* is suspended.
C24_Witness ==
    /\ backend \in Checked /\ result = "Ok"
    /\ \E c, k \in Cursors :
          /\ pc[c] = "live" /\ Len(data[c]) >= 2
          /\ pc[k] = "suspended" /\ Len(data[k]) >= 1

\* The calls A and B, made in this state, can end in exactly the same states.
SameOutcome(A, B) == ~ENABLED (A /\ ~B) /\ ~ENABLED (B /\ ~A)

Descend(n) == [kind |-> "Descend", node |-> n]
Inject(n) == [kind |-> "Inject", node |-> n]
DescendNext(u, v) == [kind |-> "Descend", nav |-> "next", addl |-> u, set |-> v]
InjectNext(u, v) == [kind |-> "Inject", nav |-> "next", addl |-> u, set |-> v]

\* C25: Descend and Inject have the same stack mechanics. In every state of every
\* backend, move_with deciding Descend(n) and move_with deciding Inject(n) end in
\* the same states (result, stacks, lock states), and so do descend_with and
\* inject_with whose closures return the same node.
C25_DescendIsInject ==
    \A c \in Cursors :
       pc[c] = "live" =>
          CASE backend = "simple" ->
                 /\ \A n \in Nodes :
                       SameOutcome(Simple_move_with(c, Descend(n)), Simple_move_with(c, Inject(n)))
                 /\ \A f \in NavFns :
                       SameOutcome(Simple_descend_with(c, f), Simple_inject_with(c, f))
            [] backend = "refcell" ->
                 /\ \A n \in Nodes :
                       SameOutcome(RefCell_move_with(c, Descend(n)), RefCell_move_with(c, Inject(n)))
                 /\ \A f \in NavFns :
                       SameOutcome(RefCell_descend_with(c, f), RefCell_inject_with(c, f))
            [] backend = "mutex" ->
                 \A ignore_poison \in BOOLEAN :
                    /\ \A n \in Nodes :
                          SameOutcome(Mutex_move_with(c, Descend(n), ignore_poison),
                                      Mutex_move_with(c, Inject(n), ignore_poison))
                    /\ \A f \in NavFns :
                          SameOutcome(Mutex_descend_with(c, f, ignore_poison),
                                      Mutex_inject_with(c, f, ignore_poison))
            [] backend = "with_data" ->
                 /\ \A u, v \in Aux :
                       SameOutcome(WithData_move_with(c, DescendNext(u, v)),
                                   WithData_move_with(c, InjectNext(u, v)))
                 /\ \A f \in WithDataClosure :
                       SameOutcome(WithData_descend_with(c, f), WithData_inject_with(c, f))

\* A concurrent-backend cursor of three frames has a poisoned node on its stack and
\* its last acquisition was refused: pushes and refusals have both happened.
C25_Witness ==
    /\ backend = "mutex" /\ result = "WouldBlock"
    /\ \E c \in Cursors :
          pc[c] = "live" /\ Len(data[c]) = 3 /\ \E n \in Range(data[c]) : poisoned[n]

\* The acquisition of n by cursor c succeeded.
Acquired(c, n) ==
    /\ result' = "Ok"
    /\ data' = [data EXCEPT ![c] = Push(@, n)]
    /\ held' = [held EXCEPT ![n] = TRUE]

\* An acquisition of a node on another cursor's stack gets would-block, and no
\* stack and no lock changes.
ContendedBlocks ==
    \A a, b \in Cursors, n \in Nodes, ignore_poison \in BOOLEAN :
       (backend = "mutex" /\ a # b /\ pc[b] = "live" /\ n \in Range(data[a])) =>
          /\ ENABLED MutexAcquire(b, n, ignore_poison)
          /\ ~ENABLED (MutexAcquire(b, n, ignore_poison)
                         /\ ~(result' = "WouldBlock" /\ data' = data /\ held' = held))

\* Right after a cursor released node n (nobody else can have taken it yet), the
\* acquisitions of n in Tries succeed.
RetrySucceeds(Tries) ==
    \A b \in Cursors, n \in Nodes, ignore_poison \in BOOLEAN :
       (backend = "mutex" /\ pc[b] = "live" /\ n \in LogNodes(released)
           /\ <<n, ignore_poison>> \in Tries) =>
          /\ ~held[n]
          /\ ENABLED MutexAcquire(b, n, ignore_poison)
          /\ ~ENABLED (MutexAcquire(b, n, ignore_poison) /\ ~Acquired(b, n))

\* The claim as stated: every retry succeeds once the holder has released the node.
C26_RetryAlwaysSucceeds ==
    ContendedBlocks /\ RetrySucceeds(Nodes \X BOOLEAN)

\* C26: in the concurrent backend a cursor that tries to acquire a node held by
\* another cursor gets would-block and neither stack changes; once the holder has
\* released the node (ascend, to_root, drop) and nobody else took it, the retry
\* succeeds, provided the node is not poisoned or the retry ignores poison.
C26_Arbitration ==
    [](ContendedBlocks /\ RetrySucceeds({t \in Nodes \X BOOLEAN : ~poisoned[t[1]] \/ t[2]}))

\* Two live cursors, and the last step of one of them released a node by ascending.
C26_Witness ==
    /\ backend = "mutex" /\ \A c \in Cursors : pc[c] = "live"
    /\ Len(released) = 1 /\ ~held[released[1].node] /\ result = "Popped"

\* Right after a cursor released a poisoned node, an acquisition of it that does
\* not ignore poison fails with poisoned and changes nothing.
PoisonedAfterRelease ==
    \A b \in Cursors, n \in Nodes :
       (backend = "mutex" /\ pc[b] = "live" /\ n \in LogNodes(released) /\ poisoned[n]) =>
          /\ ENABLED MutexAcquire(b, n, FALSE)
          /\ ~ENABLED (MutexAcquire(b, n, FALSE)
                         /\ ~(result' = "Poisoned" /\ data' = data /\ held' = held))

\* No step clears the poison of a node, whether it acquires the node (with
\* ignore_poison or through the PoisonError of new), releases it or does anything else.
PoisonStaysStep == \A n \in Nodes : poisoned[n] => poisoned'[n]

\* C27: poison is sticky. Acquiring a poisoned node with ignore_poison = true does
\* not clear its poison: after the cursor released the node, the next acquisition
\* with ignore_poison = false fails with poisoned again, and no cursor operation
\* turns a poisoned node into an unpoisoned one.
C27_PoisonSticky == []PoisonedAfterRelease /\ [][PoisonStaysStep]_vars

\* A cursor released a poisoned node that was a frame above its root, so it had
\* been acquired with ignore_poison = true; another acquisition can follow.
C27_Witness ==
    /\ backend = "mutex"
    /\ \E i \in 1..Len(released) :
          poisoned[released[i].node] /\ released[i].idx >= 2 /\ ~held[released[i].node]
    /\ \E b \in Cursors : pc[b] = "live"

\* What ascend_while with the predicate P does to the stack s of cursor c: k is
\* the number of frames it pops, j the position of the frame it stops at.
MaximalRunPost(c, P) ==
    LET s == data[c]
        k == Len(released')
        j == Len(s) - k
    IN /\ j >= 1
       \* the popped frames satisfy the predicate, the stopping frame is the root or fails it
       /\ \A i \in (j + 1)..Len(s) : s[i] \in P
       /\ j = 1 \/ s[j] \notin P
       \* they are popped from the top down; the stopping frame and all below stay
       /\ \A i \in 1..k : released'[i].idx = Len(s) - i + 1
       /\ data'[c] = SubSeq(s, 1, j)
       \* one call of the predicate per popped frame, top first, then one on the
       \* stopping frame unless it is the root
       /\ result'.calls = [i \in 1..(IF j = 1 THEN k ELSE k + 1) |-> Len(s) - i + 1]
       /\ \A i \in 1..Len(result'.calls) : result'.calls[i] # 1

MaximalRunStep ==
    \A c \in Cursors :
       (backend = "with_data" /\ result'.res = "Collected") =>
          \A P \in SUBSET Range(data[c]) : WithData_ascend_while(c, P) => MaximalRunPost(c, P)

MutexNewPost(c, r) ==
    /\ held[r] =>
          result' = "WouldBlock" /\ UNCHANGED <<data, pc, root, held>>
    /\ (~held[r] /\ poisoned[r]) =>
          /\ result' = "Poisoned"
          /\ pc'[c] = "poison_err" /\ data'[c] = <<r>>
          /\ held' = [held EXCEPT ![r] = TRUE]
    /\ (~held[r] /\ ~poisoned[r]) =>
          /\ result' = "Ok"
          /\ pc'[c] = "live" /\ data'[c] = <<r>>
          /\ held' = [held EXCEPT ![r] = TRUE]

\* new ends as above; the cursor inside the PoisonError it returned keeps the root
\* locked against every other acquisition, until the PoisonError is dropped.
PoisonedNewHolds ==
    backend = "mutex" =>
       /\ \A c \in Cursors, r \in Nodes :
             FreeSlot(c) =>
                /\ ENABLED Mutex_new(c, r)
                /\ ~ENABLED (Mutex_new(c, r) /\ ~MutexNewPost(c, r))
       /\ \A c \in Cursors :
             pc[c] = "poison_err" =>
                /\ data[c] = <<root[c]>> /\ held[root[c]]
                /\ \A b \in Cursors, ignore_poison \in BOOLEAN :
                      /\ pc[b] = "live" =>
                            ~ENABLED (MutexAcquire(b, root[c], ignore_poison)
                                       /\ result' # "WouldBlock")
                      /\ ~ENABLED (Mutex_new(b, root[c]) /\ result' # "WouldBlock")
                /\ ENABLED Mutex_drop(c)
                /\ ~ENABLED (Mutex_drop(c)
                               /\ ~(/\ held' = [held EXCEPT ![root[c]] = FALSE]
                                    /\ LogNodes(released') = {root[c]}
                                    /\ pc'[c] = "none" /\ data'[c] = <<>>))

\* C29: MutexGuardStack::new on a root that is held fails with would-block and
\* holds nothing. On a free but poisoned root it fails with poisoned, and the
\* failure value carries a cursor of one frame that holds the root's lock: the
\* root stays locked, other acquisitions of it get would-block, until the failure
\* value is dropped, which unlocks the root.
C29_PoisonedNew == []PoisonedNewHolds

\* A PoisonError of new is alive and an acquisition by another cursor has just been
\* refused with would-block.
C29_Witness ==
    /\ backend = "mutex" /\ result = "WouldBlock"
    /\ \E c, b \in Cursors : pc[c] = "poison_err" /\ pc[b] = "live"

RECURSIVE Depth(_, _)
\* The depth of node i of forest F: 0 for a root.
Depth(F, i) == IF F[i] = RootSlice THEN 0 ELSE 1 + Depth(F, F[i])

\* The height of a forest: the greatest depth of a node, -1 for the empty forest.
Height(F) ==
    IF DOMAIN F = {} THEN -1
    ELSE CHOOSE h \in {Depth(F, i) : i \in DOMAIN F} : \A i \in DOMAIN F : Depth(F, i) <= h

\* The loop of preorder_traverse has been left.
LoopLeft == pc[1] = "exited"

\* The callback has been called exactly once on every node of the forest.
EachNodeOnce ==
    /\ Len(visited) = Cardinality(DOMAIN forest)
    /\ \A n \in DOMAIN forest : \E i \in 1..Len(visited) : visited[i][1] = n

\* C30: for every finite forest the loop of preorder_traverse terminates; it is
\* left on the AscendAtRoot failure, raised with the root frame alone on the
\* stack, after the callback has been called exactly once on every node; and the
\* stack never has more frames than the height of the forest plus two.
C30_TraversalTerminates ==
    /\ <>LoopLeft
    /\ [](LoopLeft => (result.res = "AscendAtRoot" /\ Len(data[1]) = 1 /\ EachNodeOnce))
    /\ [](Len(data[1]) <= Height(forest) + 2)

\* The loop was left on a forest of three or more nodes whose height is at least
\* one, after the stack had held height + 2 frames.
C30_Witness ==
    /\ LoopLeft /\ result.res = "AscendAtRoot"
    /\ Cardinality(DOMAIN forest) >= 3 /\ Height(forest) >= 1
    /\ \E i \in 1..Len(visited) : visited[i][2] = Height(forest)

====
